---------------------------- MODULE Spec2Model ----------------------------
(***************************************************************************)
(* A model of the T-Rex neuro-evolution game: the feedforward network's    *)
(* weight packing, the genetic algorithm run at the end of a generation,   *)
(* and the frame-driven simulation loop with its buttons, its auto-run     *)
(* timer and its asynchronous checkpoint load and save.                    *)
(*                                                                         *)
(* Real numbers are scaled to integers.  Math.random() is a draw r from    *)
(* 0 .. RandRes-1 standing for the real r / RandRes in [0, 1).             *)
(* Indices are 1-based here and 0-based in the source.                     *)
(***************************************************************************)
EXTENDS Integers, Sequences, FiniteSets, TLC

VARIABLES
    tRexes,             \* gameData.tRexes: per agent [alive]
    networks,           \* gameData.networks
    fitness,            \* gameData.fitness
    generation,         \* gameData.generation
    bestFitness,        \* gameData.bestFitness
    bestWeights,        \* gameData.bestWeights (NULL or a flat vector)
    playing,            \* gameData.playing
    crashed,            \* gameData.crashed
    gameState,          \* React state gameState
    runningTime,        \* gameData.runningTime (ms)
    animationFrameRef,  \* [set, pending]: the id held and whether its callback is queued
    staleFrames,        \* queued update callbacks whose id the ref no longer holds
    autoRunRef,         \* autoRunRef.current
    startTimers,        \* pending setTimeout(handleStart) callbacks
    pc,                 \* position of the tick handler: "idle" or "handleGenerationEnd"
    seedLoad,           \* the checkpoint fetch of initializeGame: "pending" or "done"
    stored,             \* contents of training-checkpoint.json (NoFile when absent)
    saveRequests,       \* checkpoints POSTed to /api/save-checkpoint and still in flight
    rollovers,          \* how many times handleGenerationEnd has run
    panel,              \* [generation, weights]: App's generation state (Undefined for
                        \* null) and the weights of the network the manager shows
    crossover,          \* one call of crossoverSinglePoint: [a, b, point, child, called]
    tournament,         \* one call of buildParentsPool: [fitness, k, pool, called]
    obstacleHistory,    \* gameData.obstacleHistory, most recent type first
    currentSpeed,       \* gameData.currentSpeed, in tenths
    agents,             \* the tRexes of the agent state machine on its own: [alive, jumping, ducking, status]
    agentsPlaying,      \* gameData.playing of the agent state machine on its own
    nn,                 \* the networks on their own: [memory, networks, others, call, ops]
    server,             \* the files of the reset-training middleware on its own: [checkpoint, best, request, status]
    shaping,            \* one tick of one agent on its own: [tRex, actionIdx, closest, minDist, added]
    encoding,           \* the distance delta of getGameInputsForNN on its own: [prevDist, minDistance, dDistance, alive]
    track,              \* the obstacles and their hitboxes on their own: [defs, obstacles]
    arena,              \* collisions on their own: [runningTime, obstacles, tRexes]
    diversity,          \* the survivor slots on their own: [populationSize, bestIdx, shuffled, cloned]
    autoStarts,         \* auto-run timers pending, for the agents on their own
    jumper,             \* the jump physics of one agent on its own
    passing,            \* the pass bonus on its own: [obstacles, alive, scored]
    lane                \* updateObstacles on its own: [runningTime, obstacles, appended, failed, step]

vars == <<tRexes, networks, fitness, generation, bestFitness, bestWeights,
          playing, crashed, gameState, runningTime, animationFrameRef,
          staleFrames, autoRunRef, startTimers, pc, seedLoad, stored,
          saveRequests, rollovers, panel, crossover, tournament,
          obstacleHistory,
          currentSpeed,
          agents,
          agentsPlaying,
          nn,
          server,
          shaping,
          encoding,
          track,
          arena,
          diversity,
          autoStarts,
          jumper,
          passing,
          lane>>

gameVars == <<tRexes, networks, fitness, generation, bestFitness, bestWeights,
              playing, crashed, gameState, runningTime, animationFrameRef,
              staleFrames, autoRunRef, startTimers, pc, seedLoad, stored,
              saveRequests, rollovers, panel>>

\* the variables of the specifications that study one part of the program on its own
unitVars == <<crossover, tournament, obstacleHistory, currentSpeed, agents, agentsPlaying, nn, server, shaping, encoding, track, arena, diversity, autoStarts, jumper, passing, lane>>

-----------------------------------------------------------------------------
(* Bounds *)

\* population size (T_REX_COUNT is 200 in the source)
T_REX_COUNT == 2

\* layer sizes (12, 8, 6, 3 in the source)
InputSize == 1
Hidden1Size == 1
Hidden2Size == 1
OutputSize == 1

\* resolution of a Math.random() draw
RandRes == 2

\* at most this many weights of one child are perturbed by mutateWeights
MaxMutated == 1

\* generations are played while fewer than this many rollovers have happened
MaxRollovers == 1

\* ticks are explored while runningTime stays within MaxRunningTime (ms)
MaxRunningTime == 6000

\* ticks are explored while every |fitness| stays within MaxFitness
MaxFitness == 1

\* at most this many auto-run timers / stale frame callbacks are explored
MaxTimers == 1
MaxStaleFrames == 1

\* largest tournament size k given to buildParentsPool on its own
MaxK == 3

\* calls made on the networks studied on their own, and clones kept
MaxOps == 2
MaxClones == 1

\* random streams a weight vector handed to setWeights is taken from
MaxSeed == 2

\* longest vector given to crossoverSinglePoint on its own
MaxLen == 3

\* gameData.bestWeights before any generation improved on bestFitness (null in the source)
NULL == << >>

\* training-checkpoint.json absent: the fetch answers 404
NoFile == [exists |-> FALSE, generation |-> 0, population |-> << >>]
Undefined == 0 - 1000

-----------------------------------------------------------------------------
(* Helpers for JavaScript arrays *)

Min2(x, y) == IF x < y THEN x ELSE y
Max2(x, y) == IF x > y THEN x ELSE y

\* Array.prototype.slice(from, to) with 0-based bounds, on a 1-based sequence
Slice(s, from, to) ==
    LET lo == Min2(from, Len(s))
        hi == Min2(to, Len(s))
    IN  IF hi <= lo THEN << >> ELSE [i \in 1 .. (hi - lo) |-> s[lo + i]]

\* weights[index] with a 0-based index: undefined past the end
At(s, index) == IF index < Len(s) THEN s[index + 1] ELSE Undefined

Randoms == 0 .. (RandRes - 1)

\* Math.floor(Math.random() * n)
RandIndex(r, n) == (r * n) \div RandRes

-----------------------------------------------------------------------------
(* NeuralNetwork *)

DEFAULT_ARCHITECTURE ==
    [inputSize |-> InputSize, hidden1Size |-> Hidden1Size,
     hidden2Size |-> Hidden2Size, outputSize |-> OutputSize]

getTotalWeights(arch) ==
    LET ih1 == arch.inputSize * arch.hidden1Size
        h1h2 == arch.hidden1Size * arch.hidden2Size
        h2o == arch.hidden2Size * arch.outputSize
        biases == arch.hidden1Size + arch.hidden2Size + arch.outputSize
    IN  ih1 + h1h2 + h2o + biases

\* rows x cols entries of a flat vector, row by row, starting at a 0-based offset
Unflatten(weights, offset, rows, cols) ==
    [i \in 1 .. rows |-> [j \in 1 .. cols |-> At(weights, offset + (i - 1) * cols + (j - 1))]]

\* the rows of a matrix one after the other
RECURSIVE Flatten(_)
Flatten(m) == IF m = << >> THEN << >> ELSE Head(m) \o Flatten(Tail(m))

setWeights(net, weights) ==
    LET a == net.architecture
        o1 == a.inputSize * a.hidden1Size
        o2 == o1 + a.hidden1Size * a.hidden2Size
        o3 == o2 + a.hidden2Size * a.outputSize
        o4 == o3 + a.hidden1Size
        o5 == o4 + a.hidden2Size
    IN  [architecture |-> a,
         weightsIH1 |-> Unflatten(weights, 0, a.inputSize, a.hidden1Size),
         weightsH1H2 |-> Unflatten(weights, o1, a.hidden1Size, a.hidden2Size),
         weightsH2O |-> Unflatten(weights, o2, a.hidden2Size, a.outputSize),
         biasH1 |-> [i \in 1 .. a.hidden1Size |-> At(weights, o3 + i - 1)],
         biasH2 |-> [i \in 1 .. a.hidden2Size |-> At(weights, o4 + i - 1)],
         biasO |-> [i \in 1 .. a.outputSize |-> At(weights, o5 + i - 1)]]

\* faulty variant of getWeights: the biases are pushed before the weight matrices
getWeightsBiasesFirst(net) ==
    net.biasH1 \o net.biasH2 \o net.biasO
        \o Flatten(net.weightsIH1) \o Flatten(net.weightsH1H2) \o Flatten(net.weightsH2O)

getWeights(net) ==
    Flatten(net.weightsIH1) \o Flatten(net.weightsH1H2) \o Flatten(net.weightsH2O)
        \o net.biasH1 \o net.biasH2 \o net.biasO

\* new NeuralNetwork(arch): every weight and bias is the next draw of a random stream
NewNetwork(arch, stream) ==
    LET o1 == arch.inputSize * arch.hidden1Size
        o2 == o1 + arch.hidden1Size * arch.hidden2Size
        o3 == o2 + arch.hidden2Size * arch.outputSize
        o4 == o3 + arch.hidden1Size
        o5 == o4 + arch.hidden2Size
    IN  [architecture |-> arch,
         weightsIH1 |-> Unflatten(stream, 0, arch.inputSize, arch.hidden1Size),
         weightsH1H2 |-> Unflatten(stream, o1, arch.hidden1Size, arch.hidden2Size),
         weightsH2O |-> Unflatten(stream, o2, arch.hidden2Size, arch.outputSize),
         biasH1 |-> [i \in 1 .. arch.hidden1Size |-> At(stream, o3 + i - 1)],
         biasH2 |-> [i \in 1 .. arch.hidden2Size |-> At(stream, o4 + i - 1)],
         biasO |-> [i \in 1 .. arch.outputSize |-> At(stream, o5 + i - 1)]]

\* the draws of randomWeight() for one network: s, s+1, ... (scaled)
Stream(arch, s) == [i \in 1 .. getTotalWeights(arch) |-> s + i - 1]

\* faulty variant of clone: a fresh network that never receives the source's weights
cloneWithoutWeights(net) == NewNetwork(net.architecture, Stream(net.architecture, 0))

clone(net) == setWeights(NewNetwork(net.architecture, Stream(net.architecture, 0)), getWeights(net))


\* 1 / (1 + Math.exp(-x)) in halves, rounded: below, at or above one half
sigmoid(x) == IF x < 0 THEN 0 ELSE IF x = 0 THEN 1 ELSE 2

\* sum over i < n of inputs[i] * weights[i][j]
RECURSIVE WeightedSum(_, _, _, _)
WeightedSum(inputs, weights, j, n) ==
    IF n = 0 THEN 0
    ELSE inputs[n] * weights[n][j] + WeightedSum(inputs, weights, j, n - 1)

\* one layer of predict: sigmoid(bias[j] + sum) for each of its size units
Layer(inputs, weights, bias, size) ==
    [j \in 1 .. size |-> sigmoid(bias[j] + WeightedSum(inputs, weights, j, Len(inputs)))]

\* the forward pass of predict on an input vector of the right length
Forward(net, inputs) ==
    LET a == net.architecture
        hidden1 == Layer(inputs, net.weightsIH1, net.biasH1, a.hidden1Size)
        hidden2 == Layer(hidden1, net.weightsH1H2, net.biasH2, a.hidden2Size)
        outputs == Layer(hidden2, net.weightsH2O, net.biasO, a.outputSize)
    IN  [hidden1 |-> hidden1, hidden2 |-> hidden2, outputs |-> outputs]

(* Objects.  A NeuralNetwork object holds its six weight arrays by reference: an
   object is a record of addresses into memory, a sequence of array contents, and
   of the last* arrays, which predict replaces by fresh copies.  *)

StorageFields == {"weightsIH1", "weightsH1H2", "weightsH2O", "biasH1", "biasH2", "biasO"}

\* the addresses of the arrays an object holds
Storage(obj) == {obj[f] : f \in StorageFields}

\* the weights and biases an object holds, as the record the functions above take
Deref(obj, memory) ==
    [architecture |-> obj.architecture,
     weightsIH1 |-> memory[obj.weightsIH1], weightsH1H2 |-> memory[obj.weightsH1H2],
     weightsH2O |-> memory[obj.weightsH2O], biasH1 |-> memory[obj.biasH1],
     biasH2 |-> memory[obj.biasH2], biasO |-> memory[obj.biasO]]

\* memory after the arrays of obj have been overwritten element by element with net's
Store(obj, memory, net) ==
    [adr \in DOMAIN memory |->
        IF adr = obj.weightsIH1 THEN net.weightsIH1
        ELSE IF adr = obj.weightsH1H2 THEN net.weightsH1H2
        ELSE IF adr = obj.weightsH2O THEN net.weightsH2O
        ELSE IF adr = obj.biasH1 THEN net.biasH1
        ELSE IF adr = obj.biasH2 THEN net.biasH2
        ELSE IF adr = obj.biasO THEN net.biasO
        ELSE memory[adr]]

\* new NeuralNetwork(arch): six fresh arrays filled by initializeWeights
Construct(memory, arch, stream) ==
    LET net == NewNetwork(arch, stream)
        base == Len(memory)
    IN  [obj |-> [architecture |-> arch,
                  weightsIH1 |-> base + 1, weightsH1H2 |-> base + 2, weightsH2O |-> base + 3,
                  biasH1 |-> base + 4, biasH2 |-> base + 5, biasO |-> base + 6,
                  lastInputs |-> << >>, lastHidden1 |-> << >>,
                  lastHidden2 |-> << >>, lastOutputs |-> << >>],
         memory |-> memory \o <<net.weightsIH1, net.weightsH1H2, net.weightsH2O,
                                 net.biasH1, net.biasH2, net.biasO>>]

\* obj.setWeights(weights)
SetWeightsOf(obj, memory, weights) == Store(obj, memory, setWeights(Deref(obj, memory), weights))

\* faulty variant of the length test of predict: a shorter input vector is let through
ShapeMismatchIfLonger(obj, inputs) == Len(inputs) > obj.architecture.inputSize

\* the length test of predict: inputs.length !== this.architecture.inputSize
ShapeMismatch(obj, inputs) == Len(inputs) # obj.architecture.inputSize

\* obj.predict(inputs): the error thrown, or the outputs and the object with its
\* last* arrays replaced; a missing input reads as undefined and poisons the sums
PredictOf(obj, memory, inputs) ==
    IF ShapeMismatch(obj, inputs) THEN [error |-> TRUE, obj |-> obj, outputs |-> << >>]
    ELSE LET padded == [i \in 1 .. obj.architecture.inputSize |-> At(inputs, i - 1)]
             f == Forward(Deref(obj, memory), padded)
         IN  [error |-> FALSE,
              obj |-> [obj EXCEPT !.lastInputs = inputs, !.lastHidden1 = f.hidden1,
                                  !.lastHidden2 = f.hidden2, !.lastOutputs = f.outputs],
              outputs |-> f.outputs]

\* faulty variant of clone: the copy takes over the source's arrays
CloneSharing(obj, memory) == [obj |-> obj, memory |-> memory]

\* obj.clone(): a new object, then setWeights(this.getWeights()) on it
CloneOf(obj, memory) ==
    LET made == Construct(memory, obj.architecture, Stream(obj.architecture, 0))
    IN  [obj |-> made.obj,
         memory |-> SetWeightsOf(made.obj, made.memory, getWeights(Deref(obj, memory)))]

-----------------------------------------------------------------------------
(* Genetic operators of TRexGame.tsx *)

\* faulty variant of the cut point: Math.floor(Math.random() * len), which can be 0
crossoverPointFromZero(a, b, r) ==
    LET len == Min2(Len(a), Len(b))
    IN  (r * len) \div RandRes

\* the cut point crossoverSinglePoint draws: 1 + Math.floor(Math.random() * (len - 1))
crossoverPoint(a, b, r) ==
    LET len == Min2(Len(a), Len(b))
    IN  1 + ((r * (len - 1)) \div RandRes)

crossoverSinglePoint(a, b, r) ==
    LET len == Min2(Len(a), Len(b))
        point == crossoverPoint(a, b, r)
    IN  IF len = 0 THEN << >>
        ELSE Slice(a, 0, point) \o Slice(b, point, Len(b))

\* randn() * sigma of a perturbed weight, in units of the weight scale
GaussDraws == {0 - 1, 1}

\* the index sets on which Math.random() < mutationRate can hold
MutationHits(len) == {S \in SUBSET (1 .. len) : Cardinality(S) <= MaxMutated}

\* weights.map(w => Math.random() < mutationRate ? w + randn() * sigma : w)
mutateWeights(weights, hits, noise) ==
    [i \in 1 .. Len(weights) |-> IF i \in hits THEN weights[i] + noise[i] ELSE weights[i]]

\* faulty variant of the ranking: the comparator a[0] - b[0], ascending by fitness
indicesAscending(fit) ==
    LET F[S \in SUBSET (1 .. Len(fit))] ==
            IF S = {} THEN << >>
            ELSE LET b == CHOOSE i \in S :
                              \A j \in S : fit[j] > fit[i] \/ (fit[j] = fit[i] /\ i <= j)
                 IN  <<b>> \o F[S \ {b}]
    IN  F[1 .. Len(fit)]

\* fitness.map((f, i) => [f, i]).sort((a, b) => b[0] - a[0]).map(([_, i]) => i):
\* descending by fitness, equal fitness in index order (the sort is stable)
indices(fit) ==
    LET F[S \in SUBSET (1 .. Len(fit))] ==
            IF S = {} THEN << >>
            ELSE LET b == CHOOSE i \in S :
                              \A j \in S : fit[j] < fit[i] \/ (fit[j] = fit[i] /\ i <= j)
                 IN  <<b>> \o F[S \ {b}]
    IN  F[1 .. Len(fit)]

\* one tournament of buildParentsPool: d[1] draws the first candidate, d[t+1] challenger t
RECURSIVE Tournament(_, _, _, _)
Tournament(fit, d, t, bestIdx) ==
    IF t > Len(d) THEN bestIdx
    ELSE LET challenger == RandIndex(d[t], Len(fit)) + 1
         IN  Tournament(fit, d, t + 1,
                        IF fit[challenger] > fit[bestIdx] THEN challenger ELSE bestIdx)

\* the pools buildParentsPool can return, as indices into networks: one tournament per slot
buildParentsPool(nets, fit, k) ==
    LET n == Len(nets)
        winners == {Tournament(fit, d, 2, RandIndex(d[1], n) + 1) : d \in [1 .. k -> Randoms]}
    IN  [1 .. n -> winners]

\* the first m entries of Array.from({length: n}, (_, i) => i).sort(() => Math.random() - 0.5):
\* any m distinct indices, the comparator being random
ShuffledPrefixes(n, m) ==
    {s \in [1 .. m -> 1 .. n] : \A i, j \in 1 .. m : i # j => s[i] # s[j]}

\* the diversity loop: clones of shuffledIndices[0 .. randomSurvivors-1], skipping bestIdx
RECURSIVE Survivors(_, _, _, _, _)
Survivors(nets, shuffled, i, bestIdx, next) ==
    IF i > Len(shuffled) \/ Len(next) >= Len(nets) THEN next
    ELSE Survivors(nets, shuffled, i + 1, bestIdx,
                   IF shuffled[i] # bestIdx THEN Append(next, clone(nets[shuffled[i]]))
                   ELSE next)

\* the children one pass of the offspring loop can produce from a pool
Offspring(nets, pool) ==
    {setWeights(NewNetwork(DEFAULT_ARCHITECTURE, Stream(DEFAULT_ARCHITECTURE, 0)),
                mutateWeights(crossoverSinglePoint(getWeights(nets[pool[RandIndex(r1, Len(pool)) + 1]]),
                                                   getWeights(nets[pool[RandIndex(r2, Len(pool)) + 1]]),
                                                   r3),
                              hn[1], hn[2])) :
        r1 \in Randoms, r2 \in Randoms, r3 \in Randoms,
        hn \in UNION {{<<h, z>> : z \in [h -> GaussDraws]} :
                          h \in MutationHits(getTotalWeights(DEFAULT_ARCHITECTURE))}}

\* faulty variant of the offspring loop: its test is < populationSize - 1 and it stops
\* one child short
OffspringSlotsOneLess(populationSize, filled) == populationSize - filled - 1

\* how often the loop while (nextNetworks.length < populationSize) runs
OffspringSlots(populationSize, filled) == populationSize - filled

\* the populations nextNetworks the breeding part of handleGenerationEnd can build
NextNetworks(nets, fit) ==
    LET populationSize == Len(nets)
        bestIdx == indices(fit)[1]
        elite == clone(nets[bestIdx])
        randomSurvivors == populationSize \div 10
        seeded == {Survivors(nets, sh, 1, bestIdx, <<elite>>) :
                       sh \in ShuffledPrefixes(populationSize, randomSurvivors)}
    IN  UNION {UNION {{base \o kids : kids \in [1 .. OffspringSlots(populationSize, Len(base)) -> Offspring(nets, pool)]} :
                          base \in seeded} :
                  pool \in buildParentsPool(nets, fit, Max2(2, populationSize \div 4))}

\* faulty variant of the best-ever test: >=, so a tie replaces the record
IsNewBestOrTie(genBestFitness, best) == genBestFitness >= best

\* the test that guards the best-ever record: bestFitness > gameData.bestFitness
IsNewBest(genBestFitness, best) == genBestFitness > best

\* faulty variant of the auto-run arming: the timer is set whatever autoRunRef holds
ArmAlways(auto, timers) == timers + 1

\* the timers pending once update has armed setTimeout for auto-run
ArmAutoRun(auto, timers) == IF auto THEN timers + 1 ELSE timers

\* the body of POST /api/save-checkpoint built by handleGenerationEnd
CheckpointOf(nets, gen) ==
    [exists |-> TRUE, generation |-> gen,
     population |-> [i \in 1 .. Len(nets) |-> [id |-> i, weights |-> getWeights(nets[i])]]]

\* the body of POST /api/save-weights: buildBestPayloadFromWeights(bestWeights)
BestPayloadOf(weights) ==
    LET net == setWeights(NewNetwork(DEFAULT_ARCHITECTURE, Stream(DEFAULT_ARCHITECTURE, 0)),
                          weights)
    IN  [architecture |-> DEFAULT_ARCHITECTURE, generation |-> 0, bestFitness |-> 0,
         weights |-> [inputToHidden1 |-> Flatten(net.weightsIH1),
                      hidden1ToHidden2 |-> Flatten(net.weightsH1H2),
                      hidden2ToOutput |-> Flatten(net.weightsH2O),
                      biasHidden1 |-> net.biasH1,
                      biasHidden2 |-> net.biasH2,
                      biasOutput |-> net.biasO]]

\* the requests handleGenerationEnd sends and does not wait for
Posts(nets, gen, best) ==
    {CheckpointOf(nets, gen)} \cup (IF best # NULL THEN {BestPayloadOf(best)} ELSE {})

\* faulty variant of the settling of a write: a failed write takes the counter back
onSettledUndo(ok, gen) == IF ok THEN gen ELSE gen - 1

\* the generation counter once a write has settled: saveCheckpoint's boolean is dropped
\* by handleGenerationEnd and the rejection of save-weights goes to .catch(() => {})
onSettled(ok, gen) == gen

-----------------------------------------------------------------------------
(* The simulation loop *)

CLEAR_TIME == 3000

\* GAME_CONFIG.SPEED and GAME_CONFIG.MAX_SPEED, in tenths
SPEED == 60
MAX_SPEED == 130

MAX_OBSTACLE_DUPLICATION == 2

\* the height of the canvas, the bottom padding and the agent's sizes and start
CanvasHeight == 150
BOTTOM_PAD == 10
HEIGHT == 47
HEIGHT_DUCK == 25
WIDTH == 44
START_X_POS == 50
FPS == 60

\* groundYPos of every agent, as initializeGame computes it
groundYPos == CanvasHeight - BOTTOM_PAD - HEIGHT

\* a collision box
Box(x, y, width, height) == [x |-> x, y |-> y, width |-> width, height |-> height]

\* TREX_COLLISION_BOXES
TREX_COLLISION_BOXES ==
    [RUNNING |-> <<Box(22, 0, 17, 16), Box(1, 18, 30, 9), Box(10, 35, 14, 8),
                   Box(1, 24, 29, 5), Box(5, 30, 21, 4), Box(9, 34, 15, 4)>>,
     DUCKING |-> <<Box(1, 18, 55, 25)>>]

\* OBSTACLE_TYPES: speeds in tenths; yPos as the list of heights to choose from;
\* multipleSpeed is absent where the definition has none
OBSTACLE_TYPES ==
    <<[type |-> "CACTUS_SMALL", width |-> 17, height |-> 35, yPos |-> <<105>>,
       multipleSpeed |-> 40, minSpeed |-> 0, minGap |-> 120,
       collisionBoxes |-> <<Box(0, 7, 5, 27), Box(4, 0, 6, 34), Box(10, 4, 7, 14)>>],
      [type |-> "CACTUS_LARGE", width |-> 25, height |-> 50, yPos |-> <<90>>,
       multipleSpeed |-> 70, minSpeed |-> 0, minGap |-> 120,
       collisionBoxes |-> <<Box(0, 12, 7, 38), Box(8, 0, 7, 49), Box(13, 10, 10, 38)>>],
      [type |-> "PTERODACTYL", width |-> 46, height |-> 40, yPos |-> <<50, 100>>,
       minSpeed |-> 85, minGap |-> 150,
       collisionBoxes |-> <<Box(15, 15, 16, 5), Box(18, 21, 24, 6), Box(2, 14, 4, 3),
                            Box(6, 10, 4, 7), Box(10, 8, 6, 9)>>]>>

\* elapsed milliseconds a frame can observe (deltaTime of update)
DeltaTimes == {1500, 3000}

\* what the fitness shaping of one tick adds to one alive agent, in whole units: the
\* survival and speed bonuses plus the action reward or penalty and the pass bonus
FitnessGains == {0 - 1, 1}

AliveSet(t) == {i \in DOMAIN t : t[i].alive}

\* the checkpoint files the server can hold when the page loads
StoredFiles ==
    {NoFile,
     [exists |-> TRUE, generation |-> 0,
      population |-> <<[id |-> 1, weights |-> Stream(DEFAULT_ARCHITECTURE, 30)]>>],
     [exists |-> TRUE, generation |-> 1,
      population |-> [i \in 1 .. T_REX_COUNT |->
                         [id |-> i, weights |-> Stream(DEFAULT_ARCHITECTURE, 40 + 10 * i)]]]}

NoCrossover == [a |-> << >>, b |-> << >>, point |-> 0, child |-> << >>, called |-> FALSE]

NoNetworks == [memory |-> << >>, networks |-> << >>, others |-> << >>, call |-> [op |-> "none"], ops |-> 0]

NoServer == [checkpoint |-> NoFile, best |-> [exists |-> FALSE], request |-> [step |-> "none"], status |-> 0]

NoShaping == [tRex |-> << >>, actionIdx |-> 0, closest |-> [type |-> "none"], minDist |-> 0, passed |-> FALSE, stoodUp |-> FALSE, added |-> << >>]

NoInputs == [prevDist |-> Undefined, minDistance |-> Undefined, dDistance |-> << >>, alive |-> {}]

NoTrack == [defs |-> << >>, obstacles |-> << >>]

NoArena == [runningTime |-> 0, obstacles |-> << >>, tRexes |-> << >>]

NoDiversity == [populationSize |-> 0, bestIdx |-> 0, shuffled |-> << >>, cloned |-> << >>]

NoJumper == [tRex |-> << >>, landed |-> FALSE, from |-> 0]

NoPassing == [obstacles |-> << >>, alive |-> {}, scored |-> << >>]

NoLane == [runningTime |-> 0, obstacles |-> << >>, appended |-> 0, failed |-> FALSE, step |-> 0]

NoTournament == [fitness |-> << >>, k |-> 0, pool |-> << >>, called |-> FALSE]

\* the state initializeGame leaves, its checkpoint fetch still in flight, when the
\* server holds one of files
GameInitWith(files) ==
    /\ tRexes = [i \in 1 .. T_REX_COUNT |-> [alive |-> TRUE]]
    /\ networks = [i \in 1 .. T_REX_COUNT |->
                      NewNetwork(DEFAULT_ARCHITECTURE, Stream(DEFAULT_ARCHITECTURE, 10 * i))]
    /\ fitness = [i \in 1 .. T_REX_COUNT |-> 0]
    /\ generation = 0
    /\ bestFitness = 0
    /\ bestWeights = NULL
    /\ playing = FALSE
    /\ crashed = FALSE
    /\ gameState = "waiting"
    /\ runningTime = 0
    /\ animationFrameRef = [set |-> FALSE, pending |-> FALSE]
    /\ staleFrames = 0
    /\ autoRunRef = FALSE
    /\ startTimers = 0
    /\ pc = "idle"
    /\ seedLoad = "pending"
    /\ stored \in files
    /\ saveRequests = {}
    /\ rollovers = 0
    /\ panel = [generation |-> Undefined,
                weights |-> getWeights(NewNetwork(DEFAULT_ARCHITECTURE,
                                                  Stream(DEFAULT_ARCHITECTURE, 5)))]

\* the state initializeGame leaves, its checkpoint fetch still in flight
GameInit == GameInitWith(StoredFiles)

\* no call of a function studied on its own is in progress
UnitIdle(except) ==
    /\ "crossover" \in except \/ crossover = NoCrossover
    /\ "tournament" \in except \/ tournament = NoTournament
    /\ "obstacleHistory" \in except \/ obstacleHistory = << >>
    /\ "currentSpeed" \in except \/ currentSpeed = SPEED
    /\ "agents" \in except \/ agents = << >>
    /\ "agentsPlaying" \in except \/ agentsPlaying = FALSE
    /\ "nn" \in except \/ nn = NoNetworks
    /\ "server" \in except \/ server = NoServer
    /\ "shaping" \in except \/ shaping = NoShaping
    /\ "encoding" \in except \/ encoding = NoInputs
    /\ "track" \in except \/ track = NoTrack
    /\ "arena" \in except \/ arena = NoArena
    /\ "diversity" \in except \/ diversity = NoDiversity
    /\ "autoStarts" \in except \/ autoStarts = 0
    /\ "jumper" \in except \/ jumper = NoJumper
    /\ "passing" \in except \/ passing = NoPassing
    /\ "lane" \in except \/ lane = NoLane

Init == GameInit /\ UnitIdle({})

\* requestAnimationFrame(update) stored in animationFrameRef, given the queue as it is
scheduleNextUpdate(ref, stale) ==
    /\ animationFrameRef' = [set |-> TRUE, pending |-> TRUE]
    /\ staleFrames' = stale + (IF ref.pending THEN 1 ELSE 0)

handleStart ==
    /\ gameState' = "playing"
    /\ playing' = TRUE
    /\ crashed' = FALSE
    /\ tRexes' = tRexes
    /\ scheduleNextUpdate(animationFrameRef, staleFrames)

\* handleRestart, given the ref as it is; fitness and networks are not touched
handleRestart(ref) ==
    /\ gameState' = "waiting"
    /\ playing' = FALSE
    /\ crashed' = FALSE
    /\ runningTime' = 0
    /\ tRexes' = [i \in DOMAIN tRexes |-> [tRexes[i] EXCEPT !.alive = TRUE]]
    /\ animationFrameRef' = IF ref.set THEN [ref EXCEPT !.pending = FALSE] ELSE ref

\* the Start button, enabled unless gameState is playing or crashed
ClickStart ==
    /\ pc = "idle"
    /\ gameState = "waiting"
    /\ animationFrameRef.pending => staleFrames < MaxStaleFrames
    /\ handleStart
    /\ UNCHANGED <<networks, fitness, generation, bestFitness, bestWeights, runningTime,
                   autoRunRef, startTimers, pc, seedLoad, stored, saveRequests, rollovers, panel, unitVars>>

\* the restart/kill button, enabled unless gameState is waiting
ClickRestart ==
    /\ pc = "idle"
    /\ gameState # "waiting"
    /\ handleRestart(animationFrameRef)
    /\ UNCHANGED <<networks, fitness, generation, bestFitness, bestWeights, staleFrames,
                   autoRunRef, startTimers, pc, seedLoad, stored, saveRequests, rollovers, panel, unitVars>>

\* the auto-run button
ToggleAutoRun ==
    /\ pc = "idle"
    /\ autoRunRef' = ~autoRunRef
    /\ UNCHANGED <<tRexes, networks, fitness, generation, bestFitness, bestWeights, playing,
                   crashed, gameState, runningTime, animationFrameRef, staleFrames,
                   startTimers, pc, seedLoad, stored, saveRequests, rollovers, panel, unitVars>>

\* the callback of setTimeout(() => { if (autoRunRef.current) handleStart() }, 0)
TimerFires ==
    /\ pc = "idle"
    /\ startTimers > 0
    /\ startTimers' = startTimers - 1
    /\ IF autoRunRef
       THEN /\ animationFrameRef.pending => staleFrames < MaxStaleFrames
            /\ handleStart
       ELSE UNCHANGED <<tRexes, playing, crashed, gameState, animationFrameRef, staleFrames>>
    /\ UNCHANGED <<networks, fitness, generation, bestFitness, bestWeights, runningTime,
                   autoRunRef, pc, seedLoad, stored, saveRequests, rollovers, panel, unitVars>>

\* faulty variant of the fitness loop: the survival bonus precedes the alive test, so a
\* dead agent still earns it
accrueFitnessOfAll(fit, alive, gain) ==
    [i \in DOMAIN fit |-> IF i \in alive THEN fit[i] + gain[i] ELSE fit[i] + 1]

\* the fitness loop of update: only agents alive at the start of the tick are scored
accrueFitness(fit, alive, gain) ==
    [i \in DOMAIN fit |-> IF i \in alive THEN fit[i] + gain[i] ELSE fit[i]]

\* faulty variant of the generation-end test: aliveCount <= 1
AllButOneDead(aliveCount) == aliveCount <= 1

\* the generation-end test of update: aliveCount === 0
AllDead(aliveCount) == aliveCount = 0

\* checkCollisions: the agents in hit overlap the first obstacle
checkCollisions(t, hit) == [i \in DOMAIN t |-> IF i \in hit THEN [t[i] EXCEPT !.alive = FALSE] ELSE t[i]]

\* one queued update callback runs, up to the call of handleGenerationEnd or to its end
update(current) ==
    LET ref == IF current THEN [animationFrameRef EXCEPT !.pending = FALSE] ELSE animationFrameRef
        stale == IF current THEN staleFrames ELSE staleFrames - 1
    IN
    /\ IF current THEN animationFrameRef.pending ELSE staleFrames > 0
    /\ IF playing
       THEN \E deltaTime \in DeltaTimes :
            \E gain \in [AliveSet(tRexes) -> FitnessGains] :
            \E hit \in SUBSET AliveSet(tRexes) :
               LET alive == AliveSet(tRexes)
                   newFitness == accrueFitness(fitness, alive, gain)
                   newTRexes == checkCollisions(tRexes, hit)
                   aliveCount == Cardinality(AliveSet(newTRexes))
               IN  /\ rollovers < MaxRollovers
                   /\ runningTime + deltaTime <= MaxRunningTime
                   /\ \A i \in DOMAIN newFitness :
                          newFitness[i] <= MaxFitness /\ newFitness[i] >= 0 - MaxFitness
                   /\ runningTime' = runningTime + deltaTime
                   /\ fitness' = newFitness
                   /\ (runningTime' > CLEAR_TIME) \/ hit = {}
                   /\ tRexes' = newTRexes
                   /\ IF AllDead(aliveCount)
                      THEN /\ autoRunRef => startTimers < MaxTimers
                           /\ playing' = FALSE
                           /\ crashed' = TRUE
                           /\ gameState' = "crashed"
                           /\ pc' = "handleGenerationEnd"
                           /\ animationFrameRef' = ref
                           /\ staleFrames' = stale
                      ELSE /\ scheduleNextUpdate(ref, stale)
                           /\ UNCHANGED <<playing, crashed, gameState, pc>>
       ELSE /\ animationFrameRef' = ref
            /\ staleFrames' = stale
            /\ UNCHANGED <<tRexes, fitness, playing, crashed, gameState, runningTime, pc>>
    /\ UNCHANGED <<networks, generation, bestFitness, bestWeights, autoRunRef, startTimers,
                   seedLoad, stored, saveRequests, rollovers, panel, unitVars>>

\* a frame: the callback whose id animationFrameRef holds, or an older one, runs
Frame ==
    /\ pc = "idle"
    /\ \E current \in BOOLEAN : update(current)

\* handleGenerationEnd, called by update when no agent is alive, and the rest of that update
handleGenerationEnd ==
    /\ pc = "handleGenerationEnd"
    /\ LET bestIdx == indices(fitness)[1]
           genBestFitness == fitness[bestIdx]
           genBestWeights == getWeights(networks[bestIdx])
       IN  /\ bestFitness' = IF IsNewBest(genBestFitness, bestFitness)
                             THEN genBestFitness ELSE bestFitness
           /\ bestWeights' = IF IsNewBest(genBestFitness, bestFitness)
                             THEN genBestWeights ELSE bestWeights
    /\ \E nextNetworks \in NextNetworks(networks, fitness) :
          /\ saveRequests' = saveRequests \cup Posts(networks, generation + 1, bestWeights')
          /\ networks' = nextNetworks
          /\ fitness' = [i \in 1 .. Len(nextNetworks) |-> 0]
    /\ generation' = generation + 1
    /\ panel' = [generation |-> generation + 1,
                 weights |-> getWeights(networks[indices(fitness)[1]])]
    /\ handleRestart(animationFrameRef)
    /\ startTimers' = ArmAutoRun(autoRunRef, startTimers)
    /\ pc' = "idle"
    /\ rollovers' = rollovers + 1
    /\ UNCHANGED <<staleFrames, autoRunRef, seedLoad, stored, unitVars>>

\* faulty variant of the seeding count: the last covered network is left out
seedCountOneLess(networksLength, popLength) == Min2(networksLength, popLength) - 1

\* n = Math.min(gameData.networks.length, pop.length)
seedCount(networksLength, popLength) == Min2(networksLength, popLength)

\* Array.isArray(pop[i]?.weights): a stored individual has a weights array, given that
\* a field of the file either is absent or has the type the page wrote it with
hasWeightsArray(individual) == "weights" \in DOMAIN individual

\* the fetch of /training-checkpoint.json started by initializeGame completes
LoadCheckpoint ==
    /\ pc = "idle"
    /\ seedLoad = "pending"
    /\ seedLoad' = "done"
    /\ \E ok \in BOOLEAN :
          IF ok /\ stored.exists
          THEN LET pop == IF "population" \in DOMAIN stored THEN stored.population ELSE << >>
                   n == seedCount(Len(networks), Len(pop))
               IN  /\ generation' = IF "generation" \in DOMAIN stored
                                     THEN stored.generation ELSE generation
                   /\ panel' = IF "generation" \in DOMAIN stored
                                THEN [panel EXCEPT !.generation = stored.generation]
                                ELSE panel
                   /\ networks' = [i \in DOMAIN networks |->
                                      IF i <= n /\ hasWeightsArray(pop[i])
                                      THEN setWeights(networks[i], pop[i].weights)
                                      ELSE networks[i]]
          ELSE UNCHANGED <<generation, networks, panel>>
    /\ UNCHANGED <<tRexes, fitness, bestFitness, bestWeights, playing, crashed, gameState,
                   runningTime, animationFrameRef, staleFrames, autoRunRef, startTimers, pc,
                   stored, saveRequests, rollovers, unitVars>>

\* the server writes the checkpoint of one save request, or the request fails
SaveCheckpoint ==
    /\ pc = "idle"
    /\ \E req \in {r \in saveRequests : "population" \in DOMAIN r} :
          /\ saveRequests' = saveRequests \ {req}
          /\ \E ok \in BOOLEAN :
                /\ stored' = IF ok THEN req ELSE stored
                /\ generation' = onSettled(ok, generation)
    /\ UNCHANGED <<tRexes, networks, fitness, bestFitness, bestWeights, playing,
                   crashed, gameState, runningTime, animationFrameRef, staleFrames,
                   autoRunRef, startTimers, pc, seedLoad, rollovers, panel, unitVars>>

\* the server answers one POST /api/save-weights, or the request fails; the file it
\* writes is not the checkpoint file
SaveWeights ==
    /\ pc = "idle"
    /\ \E req \in {r \in saveRequests : "population" \notin DOMAIN r} :
          /\ saveRequests' = saveRequests \ {req}
          /\ \E ok \in BOOLEAN : generation' = onSettled(ok, generation)
    /\ UNCHANGED <<tRexes, networks, fitness, bestFitness, bestWeights, playing,
                   crashed, gameState, runningTime, animationFrameRef, staleFrames,
                   autoRunRef, startTimers, pc, seedLoad, stored, rollovers, panel, unitVars>>

Next ==
    \/ ClickStart
    \/ ClickRestart
    \/ ToggleAutoRun
    \/ TimerFires
    \/ Frame
    \/ handleGenerationEnd
    \/ LoadCheckpoint
    \/ SaveCheckpoint
    \/ SaveWeights

Spec == Init /\ [][Next]_vars

-----------------------------------------------------------------------------
(* crossoverSinglePoint on its own: any two vectors of up to MaxLen weights *)

Vectors(values) == UNION {[1 .. n -> values] : n \in 0 .. MaxLen}

InitCrossover ==
    /\ GameInit
    /\ stored = NoFile
    /\ UnitIdle({"crossover"})
    /\ crossover \in {[NoCrossover EXCEPT !.a = va, !.b = vb] :
                         va \in Vectors({1, 2}), vb \in Vectors({3, 4})}

\* one call crossoverSinglePoint(a, b); point stays 0 when the call returns [] early
CallCrossover ==
    /\ ~crossover.called
    /\ \E r \in Randoms :
          crossover' = [crossover EXCEPT
                           !.point = IF Min2(Len(crossover.a), Len(crossover.b)) = 0 THEN 0
                                     ELSE crossoverPoint(crossover.a, crossover.b, r),
                           !.child = crossoverSinglePoint(crossover.a, crossover.b, r),
                           !.called = TRUE]
    /\ UNCHANGED <<gameVars, tournament, obstacleHistory, currentSpeed, agents, agentsPlaying, nn, server, shaping, encoding, track, arena, diversity, autoStarts, jumper, passing, lane>>

NextCrossover == CallCrossover

SpecCrossover == InitCrossover /\ [][NextCrossover]_vars

-----------------------------------------------------------------------------
(* buildParentsPool on its own: any fitness vector of the population, any k up to MaxK *)

TournamentFitness == (0 - 1) .. 2

InitTournament ==
    /\ GameInit
    /\ stored = NoFile
    /\ UnitIdle({"tournament"})
    /\ tournament \in {[NoTournament EXCEPT !.fitness = fit, !.k = k] :
                          fit \in [1 .. T_REX_COUNT -> TournamentFitness], k \in 1 .. MaxK}

\* one call buildParentsPool(networks, fitness, k); pool holds indices into networks
CallBuildParentsPool ==
    /\ ~tournament.called
    /\ \E pool \in buildParentsPool(networks, tournament.fitness, tournament.k) :
          tournament' = [tournament EXCEPT !.pool = pool, !.called = TRUE]
    /\ UNCHANGED <<gameVars, crossover, obstacleHistory, currentSpeed, agents, agentsPlaying, nn, server, shaping, encoding, track, arena, diversity, autoStarts, jumper, passing, lane>>

NextTournament == CallBuildParentsPool

SpecTournament == InitTournament /\ [][NextTournament]_vars

-----------------------------------------------------------------------------
(* The obstacle generator on its own: spawning, acceleration and restarts *)

\* the speed gained between two steps shown here: ACCELERATION (0.001) per frame, over
\* 100, 1000 or 2500 frames, in tenths
Accelerations == {1, 10, 25}

\* faulty variant of the duplication test: the history is not consulted
duplicateAlwaysOK(history, candidate) == TRUE

\* duplicateOK of createNewObstacle for one candidate
duplicateOK(history, candidate) ==
    LET recent == Slice(history, 0, MAX_OBSTACLE_DUPLICATION - 1)
    IN  ~(/\ Len(recent) = MAX_OBSTACLE_DUPLICATION - 1
          /\ \A i \in 1 .. Len(recent) : recent[i] = candidate.type)

\* the candidates an attempt of createNewObstacle accepts
Accepted(history, speed) ==
    {c \in {OBSTACLE_TYPES[i] : i \in 1 .. Len(OBSTACLE_TYPES)} :
        speed >= c.minSpeed /\ duplicateOK(history, c)}

\* what the attempts loop of createNewObstacle can leave in chosen from attempt number
\* attempts on: an accepted candidate, or "null" after the tenth rejected draw
RECURSIVE Chosen(_, _, _)
Chosen(history, speed, attempts) ==
    IF attempts >= 10 THEN {"null"}
    ELSE {c.type : c \in Accepted(history, speed)}
         \cup (IF Cardinality(Accepted(history, speed)) < Len(OBSTACLE_TYPES)
               THEN Chosen(history, speed, attempts + 1) ELSE {})

\* obstacleHistory.unshift(chosen.type), then splice(3) when longer than 3
unshiftHistory(history, type) == Slice(<<type>> \o history, 0, 3)

InitObstacles ==
    /\ GameInit
    /\ stored = NoFile
    /\ UnitIdle({})

\* createNewObstacle, called by updateObstacles
createNewObstacle ==
    /\ \E chosen \in Chosen(obstacleHistory, currentSpeed, 0) :
          obstacleHistory' = IF chosen = "null" THEN obstacleHistory
                             ELSE unshiftHistory(obstacleHistory, chosen)
    /\ UNCHANGED <<gameVars, crossover, tournament, currentSpeed, agents, agentsPlaying, nn, server, shaping, encoding, track, arena, diversity, autoStarts, jumper, passing, lane>>

\* the speed step of update, over a run of frames
Accelerate ==
    /\ currentSpeed < MAX_SPEED
    /\ \E gained \in Accelerations : currentSpeed' = Min2(MAX_SPEED, currentSpeed + gained)
    /\ UNCHANGED <<gameVars, crossover, tournament, obstacleHistory, agents, agentsPlaying, nn, server, shaping, encoding, track, arena, diversity, autoStarts, jumper, passing, lane>>

\* what handleRestart does to the obstacle generator, at a restart or a rollover
RestartObstacles ==
    /\ currentSpeed' = SPEED
    /\ UNCHANGED <<gameVars, crossover, tournament, obstacleHistory, agents, agentsPlaying, nn, server, shaping, encoding, track, arena, diversity, autoStarts, jumper, passing, lane>>

NextObstacles == createNewObstacle \/ Accelerate \/ RestartObstacles

SpecObstacles == InitObstacles /\ [][NextObstacles]_vars

-----------------------------------------------------------------------------
(* The agents' state machine on its own: network control, jump physics, collisions *)

\* updateTRexStatus(tRex, status)
updateTRexStatus(tRex, status) == [tRex EXCEPT !.status = status]

\* the agent initializeGame pushes
NewTRex ==
    [alive |-> TRUE, jumping |-> FALSE, ducking |-> FALSE, status |-> "WAITING",
     reachedMinHeight |-> FALSE, duckUntilX |-> "null"]

\* startTRexJump
startTRexJump(tRex) ==
    IF ~tRex.jumping /\ ~tRex.ducking
    THEN [updateTRexStatus(tRex, "JUMPING") EXCEPT !.jumping = TRUE,
                                                   !.reachedMinHeight = FALSE]
    ELSE tRex

\* faulty variant of the duck branch test: the agent may duck in mid-air
wantsDuckAnywhere(tRex, actionIdx) == actionIdx = 1

\* the test of the duck branch of update: actionIdx === 1 && !trex.jumping
wantsDuck(tRex, actionIdx) == actionIdx = 1 /\ ~tRex.jumping

\* what update can see ahead: no obstacle, one that is not ahead of the agents
\* (no globalClosest), one ahead within 150 px, one ahead farther than 150 px
Scenes == {"empty", "behind", "near", "far"}

\* faulty variant of the duck release test: a ducking agent that selects run always
\* stands up
mayReleaseAlways(tRex, scene, passed) == TRUE

\* the two release tests of the run branch: trex.duckUntilX && trex.xPos > trex.duckUntilX,
\* else !globalClosest || globalMinDist > 150
mayRelease(tRex, scene, passed) == (tRex.duckUntilX = "set" /\ passed) \/ scene # "near"

\* the action selection of update for one alive agent; passed says whether
\* xPos > duckUntilX
control(tRex, actionIdx, scene, passed) ==
    IF actionIdx = 0 /\ ~tRex.jumping /\ ~tRex.ducking THEN startTRexJump(tRex)
    ELSE IF wantsDuck(tRex, actionIdx)
         THEN IF scene \in {"near", "far"}
              THEN updateTRexStatus([tRex EXCEPT !.ducking = TRUE, !.duckUntilX = "set"],
                                    "DUCKING")
              ELSE tRex
    ELSE IF actionIdx = 1 /\ tRex.ducking
         THEN IF scene \in {"near", "far"} THEN [tRex EXCEPT !.duckUntilX = "set"] ELSE tRex
    ELSE IF actionIdx = 2 /\ ~tRex.jumping
         THEN IF tRex.ducking /\ mayRelease(tRex, scene, passed)
              THEN updateTRexStatus([tRex EXCEPT !.ducking = FALSE, !.duckUntilX = "null"],
                                    "RUNNING")
              ELSE tRex
    ELSE tRex

\* where updateTRexJump finds yPos after moving: at groundYPos, between it and
\* minJumpHeight, or above minJumpHeight
Heights == {"ground", "low", "high"}

\* updateAllTRexes for one alive agent: updateTRexJump while jumping
updateTRexJump(tRex, height) ==
    IF ~tRex.jumping THEN tRex
    ELSE IF height = "ground"
         THEN updateTRexStatus([tRex EXCEPT !.jumping = FALSE, !.reachedMinHeight = FALSE],
                               "RUNNING")
    ELSE IF height = "high" THEN [tRex EXCEPT !.reachedMinHeight = TRUE]
    ELSE tRex

\* checkCollisions for one alive agent: hit says whether its boxes overlap the obstacle's
collide(tRex, hit) == IF hit THEN [tRex EXCEPT !.alive = FALSE] ELSE tRex

\* what one update can make of one agent: a dead one is skipped everywhere
stepTRex(tRex, scene) ==
    IF ~tRex.alive THEN {tRex}
    ELSE {collide(updateTRexJump(control(tRex, actionIdx, scene, passed), height), hit) :
              actionIdx \in 0 .. 2, passed \in BOOLEAN, height \in Heights,
              hit \in IF scene = "empty" THEN {FALSE} ELSE BOOLEAN}

\* the sequences whose i-th entry is drawn from sets[i], for i up to n
RECURSIVE Products(_, _)
Products(sets, n) ==
    IF n = 0 THEN {<< >>}
    ELSE {Append(p, x) : p \in Products(sets, n - 1), x \in sets[n]}

\* the reset of one agent by handleRestart
resetTRex(tRex) ==
    updateTRexStatus([tRex EXCEPT !.jumping = FALSE, !.ducking = FALSE,
                                  !.duckUntilX = "null", !.alive = TRUE],
                     "WAITING")

InitAgents ==
    /\ GameInit
    /\ stored = NoFile
    /\ UnitIdle({"agents"})
    /\ agents = [i \in 1 .. T_REX_COUNT |-> NewTRex]

\* handleStart: every agent is put to RUNNING
StartAgents ==
    /\ ~agentsPlaying
    /\ agentsPlaying' = TRUE
    /\ agents' = [i \in DOMAIN agents |-> updateTRexStatus(agents[i], "RUNNING")]
    /\ UNCHANGED <<gameVars, crossover, tournament, obstacleHistory, currentSpeed, nn, server, shaping, encoding, track, arena, diversity, autoStarts, jumper, passing, lane>>

\* handleRestart, from the restart/kill button
RestartAgents ==
    /\ agentsPlaying
    /\ agentsPlaying' = FALSE
    /\ agents' = [i \in DOMAIN agents |-> resetTRex(agents[i])]
    /\ UNCHANGED <<gameVars, crossover, tournament, obstacleHistory, currentSpeed, nn, server, shaping, encoding, track, arena, diversity, autoStarts, jumper, passing, lane>>

\* one update while playing: control, physics and collisions of every alive agent,
\* then handleGenerationEnd with its handleRestart when no agent is left alive, and the
\* auto-run timer if auto-run is on
TickAgents ==
    /\ agentsPlaying
    /\ \E scene \in Scenes :
       \E moved \in Products([i \in DOMAIN agents |-> stepTRex(agents[i], scene)],
                             Len(agents)) :
          IF AllDead(Cardinality(AliveSet(moved)))
          THEN /\ agents' = [i \in DOMAIN agents |-> resetTRex(moved[i])]
               /\ agentsPlaying' = FALSE
               /\ \E auto \in {a \in BOOLEAN : a => autoStarts < MaxTimers} :
                     autoStarts' = ArmAutoRun(auto, autoStarts)
          ELSE /\ agents' = moved
               /\ agentsPlaying' = TRUE
               /\ autoStarts' = autoStarts
    /\ UNCHANGED <<gameVars, crossover, tournament, obstacleHistory, currentSpeed, nn, server, shaping, encoding, track, arena, diversity, jumper, passing, lane>>

\* the auto-run timer armed at a rollover fires: handleStart, whatever the game is doing
\* by then (autoRunRef may also be off by then, and nothing happens)
AutoStartAgents ==
    /\ autoStarts > 0
    /\ autoStarts' = autoStarts - 1
    /\ \E auto \in BOOLEAN :
          IF auto
          THEN /\ agentsPlaying' = TRUE
               /\ agents' = [i \in DOMAIN agents |-> updateTRexStatus(agents[i], "RUNNING")]
          ELSE UNCHANGED <<agents, agentsPlaying>>
    /\ UNCHANGED <<gameVars, crossover, tournament, obstacleHistory, currentSpeed, nn, server, shaping, encoding, track, arena, diversity, jumper, passing, lane>>

NextAgents == StartAgents \/ RestartAgents \/ TickAgents \/ AutoStartAgents

SpecAgents == InitAgents /\ [][NextAgents]_vars

-----------------------------------------------------------------------------
(* NeuralNetwork objects on their own: predict, setWeights, getWeights and clone *)

\* the input vectors handed to predict: every length up to one too many
InputVectors == UNION {[1 .. n -> {0, 1}] : n \in 0 .. (InputSize + 1)}

\* the vectors handed to setWeights: of length getTotalWeights(), no two entries equal
WeightVectors ==
    {[i \in 1 .. getTotalWeights(DEFAULT_ARCHITECTURE) |-> sign * (50 * s + i)] :
        s \in 0 .. MaxSeed, sign \in {0 - 1, 1}}

\* every object of nn: the population, then the other references kept
Objects(n) == n.networks \o n.others

\* nn with object number t replaced
WithObject(n, t, obj) ==
    IF t <= Len(n.networks) THEN [n EXCEPT !.networks[t] = obj]
    ELSE [n EXCEPT !.others[t - Len(n.networks)] = obj]

Called(op, target, arg, error, result) ==
    [op |-> op, target |-> target, arg |-> arg, error |-> error, result |-> result]

\* T_REX_COUNT networks as initializeGame constructs them
RECURSIVE ConstructAll(_, _)
ConstructAll(n, count) ==
    IF count = 0 THEN n
    ELSE LET sofar == ConstructAll(n, count - 1)
             made == Construct(sofar.memory, DEFAULT_ARCHITECTURE,
                               Stream(DEFAULT_ARCHITECTURE, 10 * count))
         IN  [sofar EXCEPT !.memory = made.memory, !.networks = Append(@, made.obj)]

InitNetwork ==
    /\ GameInit
    /\ stored = NoFile
    /\ UnitIdle({"nn"})
    /\ nn = [ConstructAll(NoNetworks, T_REX_COUNT) EXCEPT
                 !.call = Called("none", 0, << >>, FALSE, << >>)]

\* one call obj.predict(inputs)
CallPredict ==
    /\ nn.ops < MaxOps
    /\ \E t \in 1 .. Len(Objects(nn)), inputs \in InputVectors :
          LET r == PredictOf(Objects(nn)[t], nn.memory, inputs)
          IN  nn' = [WithObject(nn, t, r.obj) EXCEPT
                        !.call = Called("predict", t, inputs, r.error, r.outputs),
                        !.ops = @ + 1]
    /\ UNCHANGED <<gameVars, crossover, tournament, obstacleHistory, currentSpeed, agents, agentsPlaying, server, shaping, encoding, track, arena, diversity, autoStarts, jumper, passing, lane>>

\* one call obj.setWeights(weights), then obj.getWeights() as the result
CallSetWeights ==
    /\ nn.ops < MaxOps
    /\ \E t \in 1 .. Len(Objects(nn)), weights \in WeightVectors :
          LET memory == SetWeightsOf(Objects(nn)[t], nn.memory, weights)
          IN  nn' = [nn EXCEPT
                        !.memory = memory,
                        !.call = Called("setWeights", t, weights, FALSE,
                                        getWeights(Deref(Objects(nn)[t], memory))),
                        !.ops = @ + 1]
    /\ UNCHANGED <<gameVars, crossover, tournament, obstacleHistory, currentSpeed, agents, agentsPlaying, server, shaping, encoding, track, arena, diversity, autoStarts, jumper, passing, lane>>

\* one call obj.setWeights(obj.getWeights())
CallReapply ==
    /\ nn.ops < MaxOps
    /\ \E t \in 1 .. Len(Objects(nn)) :
          LET weights == getWeights(Deref(Objects(nn)[t], nn.memory))
          IN  nn' = [nn EXCEPT
                        !.memory = SetWeightsOf(Objects(nn)[t], nn.memory, weights),
                        !.call = Called("reapply", t, weights, FALSE, << >>),
                        !.ops = @ + 1]
    /\ UNCHANGED <<gameVars, crossover, tournament, obstacleHistory, currentSpeed, agents, agentsPlaying, server, shaping, encoding, track, arena, diversity, autoStarts, jumper, passing, lane>>

\* one call obj.clone(); the clone is kept among the other references
CallClone ==
    /\ nn.ops < MaxOps
    /\ Len(nn.others) < MaxClones
    /\ \E t \in 1 .. Len(Objects(nn)) :
          LET r == CloneOf(Objects(nn)[t], nn.memory)
          IN  nn' = [nn EXCEPT
                        !.memory = r.memory,
                        !.others = Append(@, r.obj),
                        !.call = Called("clone", t, << >>, FALSE, << >>),
                        !.ops = @ + 1]
    /\ UNCHANGED <<gameVars, crossover, tournament, obstacleHistory, currentSpeed, agents, agentsPlaying, server, shaping, encoding, track, arena, diversity, autoStarts, jumper, passing, lane>>

NextNetwork == CallPredict \/ CallSetWeights \/ CallReapply \/ CallClone

SpecNetwork == InitNetwork /\ [][NextNetwork]_vars

-----------------------------------------------------------------------------
(* Breeding on objects: which arrays the networks of a new generation hold *)

\* the diversity loop on objects: clone() of each shuffled index but bestIdx
RECURSIVE SurvivorObjects(_, _, _, _, _)
SurvivorObjects(olds, shuffled, i, bestIdx, built) ==
    IF i > Len(shuffled) \/ Len(built.objs) >= Len(olds) THEN built
    ELSE IF shuffled[i] = bestIdx THEN SurvivorObjects(olds, shuffled, i + 1, bestIdx, built)
    ELSE LET made == CloneOf(olds[shuffled[i]], built.memory)
         IN  SurvivorObjects(olds, shuffled, i + 1, bestIdx,
                             [objs |-> Append(built.objs, made.obj), memory |-> made.memory])

\* the offspring loop on objects: new NeuralNetwork(DEFAULT_ARCHITECTURE), then
\* setWeights(mutated), for each child weight vector
RECURSIVE ChildObjects(_, _, _)
ChildObjects(kids, i, built) ==
    IF i > Len(kids) THEN built
    ELSE LET made == Construct(built.memory, DEFAULT_ARCHITECTURE,
                               Stream(DEFAULT_ARCHITECTURE, 0))
         IN  ChildObjects(kids, i + 1,
                          [objs |-> Append(built.objs, made.obj),
                           memory |-> SetWeightsOf(made.obj, made.memory, kids[i])])

\* nextNetworks as objects, with the memory they were built in
BreedObjects(olds, memory, fit) ==
    LET nets == [i \in 1 .. Len(olds) |-> Deref(olds[i], memory)]
        populationSize == Len(olds)
        bestIdx == indices(fit)[1]
        elite == CloneOf(olds[bestIdx], memory)
        randomSurvivors == populationSize \div 10
        seeded == {SurvivorObjects(olds, sh, 1, bestIdx,
                                   [objs |-> <<elite.obj>>, memory |-> elite.memory]) :
                       sh \in ShuffledPrefixes(populationSize, randomSurvivors)}
    IN  UNION {UNION {{ChildObjects([k \in DOMAIN kids |-> getWeights(kids[k])], 1, base) :
                           kids \in [1 .. OffspringSlots(populationSize, Len(base.objs))
                                         -> Offspring(nets, pool)]} :
                          base \in seeded} :
                  pool \in buildParentsPool(nets, fit, Max2(2, populationSize \div 4))}

\* the breeding part of handleGenerationEnd; the old generation's objects, which the
\* parent pool referred to, are kept among the other references
CallRollover ==
    /\ nn.ops < MaxOps
    /\ nn.call.op # "rollover"
    /\ \E fit \in [1 .. Len(nn.networks) -> 0 .. 1] :
       \E bred \in BreedObjects(nn.networks, nn.memory, fit) :
          nn' = [nn EXCEPT
                    !.memory = bred.memory,
                    !.networks = bred.objs,
                    !.others = @ \o nn.networks,
                    !.call = Called("rollover", indices(fit)[1], fit, FALSE, << >>),
                    !.ops = @ + 1]
    /\ UNCHANGED <<gameVars, crossover, tournament, obstacleHistory, currentSpeed, agents, agentsPlaying, server, shaping, encoding, track, arena, diversity, autoStarts, jumper, passing, lane>>

NextBreeding == NextNetwork \/ CallRollover

SpecBreeding == InitNetwork /\ [][NextBreeding]_vars

-----------------------------------------------------------------------------
(* Seeding from a stored checkpoint, whole, partial or malformed *)

\* a stored individual at position i: without weights, with a whole vector, with a
\* vector shorter than the network takes
Individuals(i) ==
    {[id |-> i],
     [id |-> i, weights |-> Stream(DEFAULT_ARCHITECTURE, 30 + 10 * i)],
     [id |-> i, weights |-> <<7>>]}

\* stored populations of up to one individual more than the page has networks
SeedPopulations ==
    UNION {{p \in [1 .. m -> UNION {Individuals(i) : i \in 1 .. m}] :
                \A i \in 1 .. m : p[i] \in Individuals(i)} : m \in 0 .. (T_REX_COUNT + 1)}

\* the files the server can hold: none, or a JSON object with or without a generation
\* number and with or without a population array
SeedFiles ==
    {NoFile}
    \cup {[exists |-> TRUE]}
    \cup {[exists |-> TRUE, generation |-> g] : g \in {0, 3}}
    \cup {[exists |-> TRUE, population |-> p] : p \in SeedPopulations}
    \cup {[exists |-> TRUE, generation |-> g, population |-> p] :
              g \in {0, 3}, p \in SeedPopulations}

InitSeeding == GameInitWith(SeedFiles) /\ UnitIdle({})

NextSeeding == LoadCheckpoint

SpecSeeding == InitSeeding /\ [][NextSeeding]_vars

-----------------------------------------------------------------------------
(* The reset-training button *)

\* the first random weight of the first individual of a fresh checkpoint
ResetSeeds == {60, 80}

\* buildInitialCheckpoint(populationSize): freshly drawn networks, generation 0
buildInitialCheckpoint(populationSize, seed) ==
    [exists |-> TRUE, generation |-> 0,
     population |-> [i \in 1 .. populationSize |->
                        [id |-> i,
                         weights |-> getWeights(NewNetwork(DEFAULT_ARCHITECTURE,
                                        Stream(DEFAULT_ARCHITECTURE, seed + i)))]]]

\* the onClick of the reset-training button, with resetTrainingFiles and the answer of
\* the server: on success the files are replaced, the manager's network takes the
\* weights of the first individual and App shows the checkpoint's generation
ResetTraining ==
    /\ pc = "idle"
    /\ \E seed \in ResetSeeds :
       \E ok \in BOOLEAN :
          LET checkpoint == buildInitialCheckpoint(T_REX_COUNT, seed)
          IN  IF ok
              THEN /\ stored' = checkpoint
                   /\ panel' = [generation |-> checkpoint.generation,
                                weights |-> checkpoint.population[1].weights]
              ELSE UNCHANGED <<stored, panel>>
    /\ UNCHANGED <<tRexes, networks, fitness, generation, bestFitness, bestWeights, playing,
                   crashed, gameState, runningTime, animationFrameRef, staleFrames,
                   autoRunRef, startTimers, pc, seedLoad, saveRequests, rollovers, unitVars>>

NextReset == LoadCheckpoint \/ ResetTraining

SpecReset == InitSeeding /\ [][NextReset]_vars

-----------------------------------------------------------------------------
(* The /api/reset-training middleware of the dev server *)

\* the checkpoints and best-weights payloads a request can carry
ServerSeeds == {60, 70, 80}

\* the parsed bodies of POST /api/reset-training: both parts, or one part missing
Payloads ==
    LET checkpoints == {buildInitialCheckpoint(T_REX_COUNT, seed) : seed \in ServerSeeds}
    IN  {[checkpoint |-> c, best |-> BestPayloadOf(c.population[1].weights)] : c \in checkpoints}
        \cup {[checkpoint |-> c] : c \in checkpoints}
        \cup {[best |-> BestPayloadOf(c.population[1].weights)] : c \in checkpoints}

\* !payload.checkpoint || !payload.best, a part being an object or absent
missingPart(payload) == "checkpoint" \notin DOMAIN payload \/ "best" \notin DOMAIN payload

\* where the handler can throw: JSON.parse, mkdirSync, either writeFileSync, or nowhere
Throws == {"parse", "mkdir", "writeCheckpoint", "writeBest", "none"}

\* the 'end' handler of one POST /api/reset-training; a writeFileSync that throws
\* leaves its file as it was
PostResetTraining ==
    /\ \E payload \in Payloads :
       \E throws \in Throws :
          LET request == [payload |-> payload, step |-> throws] IN
          IF throws = "parse"
          THEN server' = [server EXCEPT !.request = request, !.status = 500]
          ELSE IF missingPart(payload)
          THEN server' = [server EXCEPT !.request = request, !.status = 400]
          ELSE IF throws = "mkdir" \/ throws = "writeCheckpoint"
          THEN server' = [server EXCEPT !.request = request, !.status = 500]
          ELSE IF throws = "writeBest"
          THEN server' = [server EXCEPT !.checkpoint = payload.checkpoint,
                                        !.request = request, !.status = 500]
          ELSE server' = [checkpoint |-> payload.checkpoint, best |-> payload.best,
                          request |-> request, status |-> 200]
    /\ UNCHANGED <<gameVars, crossover, tournament, obstacleHistory, currentSpeed, agents, agentsPlaying, nn, shaping, encoding, track, arena, diversity, autoStarts, jumper, passing, lane>>

InitServer == GameInit /\ stored = NoFile /\ UnitIdle({})

NextServer == PostResetTraining

SpecServer == InitServer /\ [][NextServer]_vars

-----------------------------------------------------------------------------
(* Fitness shaping: what one tick adds to the fitness of one alive agent *)

\* no globalClosest
NoObstacle == [type |-> "none"]

\* the obstacles update can find ahead: of each type, at each height of the type
Closests ==
    {NoObstacle}
    \cup UNION {{[type |-> OBSTACLE_TYPES[t].type, yPos |-> OBSTACLE_TYPES[t].yPos[y],
                  height |-> OBSTACLE_TYPES[t].height] :
                     y \in 1 .. Len(OBSTACLE_TYPES[t].yPos)} :
                    t \in 1 .. Len(OBSTACLE_TYPES)}

\* globalMinDist, on either side of the thresholds 80, 100 and 150
Dists == {40, 90, 120, 200}

\* the outputs of predict, in halves
Outputs == [1 .. 3 -> 0 .. 2]

\* argmax(values), as an action index from 0
argmax(values) ==
    IF values[2] > values[1]
    THEN IF values[3] > values[2] THEN 2 ELSE 1
    ELSE IF values[3] > values[1] THEN 2 ELSE 0

\* pteroBottom > tRexDuckTop
isLow(closest) == closest.yPos + closest.height > groundYPos - HEIGHT_DUCK

\* actionIdx: argmax(outputs), taken again after outputs[1] += 0.5 when a low
\* pterodactyl is closer than 80
actionOf(outputs, closest, minDist) ==
    IF closest.type = "PTERODACTYL" /\ isLow(closest) /\ minDist < 80
    THEN argmax([outputs EXCEPT ![2] = @ + 1])
    ELSE argmax(outputs)

\* correctAction for an obstacle closer than 100; speed in tenths, so that
\* timeToImpact < 0.3 is minDist * 10000 < 3 * speed * FPS
correctAction(closest, minDist, speed) ==
    IF closest.type = "PTERODACTYL" THEN (IF isLow(closest) THEN 1 ELSE 0)
    ELSE IF minDist * 10000 < 3 * speed * FPS THEN 0
    ELSE 2

\* the reward or penalty of the action, as the list of amounts added to fitness[i]
evaluateAction(actionIdx, closest, minDist, speed) ==
    IF closest # NoObstacle
    THEN IF minDist < 100
         THEN LET correct == correctAction(closest, minDist, speed)
              IN  IF actionIdx = correct
                  THEN IF correct = 1 /\ closest.type = "PTERODACTYL" THEN <<100>> ELSE <<20>>
                  ELSE IF correct = 1 /\ actionIdx # 1 /\ closest.type = "PTERODACTYL"
                       THEN <<0 - 50>> ELSE <<0 - 15>>
         ELSE IF actionIdx = 0 THEN <<0 - 20>>
         ELSE IF actionIdx = 1 THEN <<0 - 2>>
         ELSE << >>
    ELSE IF actionIdx = 2 THEN <<3>>
    ELSE IF actionIdx = 0 THEN <<0 - 20>>
    ELSE <<0 - 5>>

\* the body of the control loop of update for one alive agent: the action is applied,
\* then the action is scored and an obstacle passed for the first time earns 30; the
\* survival reward and the speed bonus, fractions below 4, are left out of added;
\* stoodUp notes that the tick ended a duck
ShapeTick ==
    /\ shaping.tRex.status # "WAITING"
    /\ \E outputs \in Outputs, closest \in Closests, minDist \in Dists :
       \E passed \in BOOLEAN, passes \in 0 .. 1 :
       \E speed \in {SPEED, MAX_SPEED} :
          LET actionIdx == actionOf(outputs, closest, minDist)
              scene == IF closest = NoObstacle THEN "empty"
                       ELSE IF minDist > 150 THEN "far" ELSE "near"
              applied == control(shaping.tRex, actionIdx, scene, passed)
          IN  shaping' = [tRex |-> applied,
                          actionIdx |-> actionIdx,
                          closest |-> closest,
                          minDist |-> minDist,
                          passed |-> passed,
                          stoodUp |-> shaping.tRex.ducking /\ ~applied.ducking,
                          added |-> evaluateAction(actionIdx, closest, minDist, speed)
                                       \o [k \in 1 .. passes |-> 30]]
    /\ UNCHANGED <<gameVars, crossover, tournament, obstacleHistory, currentSpeed, agents, agentsPlaying, nn, server, encoding, track, arena, diversity, autoStarts, jumper, passing, lane>>

\* updateAllTRexes for the agent, between two ticks of the control loop
ShapeMove ==
    /\ shaping.tRex.status # "WAITING"
    /\ shaping.tRex.jumping
    /\ \E height \in Heights :
          shaping' = [shaping EXCEPT !.tRex = updateTRexJump(@, height)]
    /\ UNCHANGED <<gameVars, crossover, tournament, obstacleHistory, currentSpeed, agents, agentsPlaying, nn, server, encoding, track, arena, diversity, autoStarts, jumper, passing, lane>>

\* handleRestart, from the restart/kill button: the agent is reset, the obstacles go
ShapeRestart ==
    /\ shaping.tRex.status # "WAITING"
    /\ shaping' = [NoShaping EXCEPT !.tRex = resetTRex(shaping.tRex)]
    /\ UNCHANGED <<gameVars, crossover, tournament, obstacleHistory, currentSpeed, agents, agentsPlaying, nn, server, encoding, track, arena, diversity, autoStarts, jumper, passing, lane>>

\* handleStart
ShapeStart ==
    /\ shaping.tRex.status = "WAITING"
    /\ shaping' = [shaping EXCEPT !.tRex = updateTRexStatus(@, "RUNNING")]
    /\ UNCHANGED <<gameVars, crossover, tournament, obstacleHistory, currentSpeed, agents, agentsPlaying, nn, server, encoding, track, arena, diversity, autoStarts, jumper, passing, lane>>

InitShaping ==
    /\ GameInit
    /\ stored = NoFile
    /\ UnitIdle({"shaping"})
    /\ shaping = [NoShaping EXCEPT !.tRex = NewTRex]

NextShaping == ShapeStart \/ ShapeTick \/ ShapeMove \/ ShapeRestart

SpecShaping == InitShaping /\ [][NextShaping]_vars

-----------------------------------------------------------------------------
(* Input encoding: the distance delta, kept in getGameInputsForNN._prevDist *)

\* Infinity, above every distance and every difference of distances
Infinity == 1000000

\* globalMinDist when an obstacle is ahead
InputDists == {30, 35, 40, 60}

\* dDistance in tenths and the new _prevDist, for one call of getGameInputsForNN with
\* the _prevDist the function object holds; minDistance is Infinity without obstacle
distanceDelta(prevDist, minDistance) ==
    LET present == minDistance # Infinity
        prev == IF prevDist = Undefined THEN minDistance ELSE prevDist
        deltaPerSecond == (prev - minDistance) * FPS
    IN  [dDistance |-> IF present
                       THEN Max2(0 - 10, Min2(10, (10 * deltaPerSecond) \div 600))
                       ELSE 0,
         prevDist |-> IF present THEN minDistance ELSE Infinity]

\* the control loop of update over the agents from index i on: each alive agent calls
\* getGameInputsForNN in turn; a dead one is skipped and keeps its last dDistance
RECURSIVE encodeAll(_, _, _, _, _)
encodeAll(i, alive, prevDist, minDistance, dDistance) ==
    IF i > Len(dDistance) THEN [prevDist |-> prevDist, dDistance |-> dDistance]
    ELSE IF i \notin alive THEN encodeAll(i + 1, alive, prevDist, minDistance, dDistance)
    ELSE LET got == distanceDelta(prevDist, minDistance)
         IN  encodeAll(i + 1, alive, got.prevDist, minDistance,
                       [dDistance EXCEPT ![i] = got.dDistance])

\* one update while playing: the inputs of every alive agent are encoded, then some of
\* the agents may die; with none left the run ends and all are alive for the next one
TickInputs ==
    /\ \E minDistance \in InputDists \cup {Infinity} :
       \E dies \in SUBSET encoding.alive :
          LET got == encodeAll(1, encoding.alive, encoding.prevDist, minDistance, encoding.dDistance)
          IN  encoding' = [prevDist |-> got.prevDist,
                         minDistance |-> IF dies = encoding.alive THEN Undefined ELSE minDistance,
                         dDistance |-> got.dDistance,
                         alive |-> IF dies = encoding.alive THEN 1 .. T_REX_COUNT
                                   ELSE encoding.alive \ dies]
    /\ UNCHANGED <<gameVars, crossover, tournament, obstacleHistory, currentSpeed, agents, agentsPlaying, nn, server, shaping, track, arena, diversity, autoStarts, jumper, passing, lane>>

InitInputs ==
    /\ GameInit
    /\ stored = NoFile
    /\ UnitIdle({"encoding"})
    /\ encoding = [NoInputs EXCEPT !.dDistance = [i \in 1 .. T_REX_COUNT |-> 0],
                                 !.alive = 1 .. T_REX_COUNT]

NextInputs == TickInputs

SpecInputs == InitInputs /\ [][NextInputs]_vars

-----------------------------------------------------------------------------
(* Obstacle hitboxes: the box objects of OBSTACLE_TYPES and of the obstacles *)

\* how many obstacles the track holds at most
MaxObstacles == 2

MAX_OBSTACLE_LENGTH == 3

\* a slot of obstacle.collisionBoxes: the box object of the type's definition itself,
\* as the spread [...chosen.collisionBoxes] copies references, or an object of its own
SharedBox == [shared |-> TRUE]

OwnBox(box) == [shared |-> FALSE, box |-> box]

\* the boxes checkCollisions reads through obstacle.collisionBoxes
BoxesOf(obstacle, defs) ==
    [k \in DOMAIN obstacle.collisionBoxes |->
        IF obstacle.collisionBoxes[k].shared THEN defs[obstacle.typeIdx][k]
        ELSE obstacle.collisionBoxes[k].box]

\* the size createNewObstacle settles on: 1 below the type's multipleSpeed, if it has one
sizeAt(chosen, size, speed) ==
    IF size > 1 /\ "multipleSpeed" \in DOMAIN chosen /\ speed < chosen.multipleSpeed
    THEN 1 ELSE size

\* the second half of createNewObstacle: the obstacle is built with the box objects of
\* its type, and for a multiple the middle and right objects are written through those
\* references before obstacle.collisionBoxes[1] and [2] get copies of them; the result
\* is the obstacle and the boxes the definitions hold afterwards
newObstacle(defs, typeIdx, size, y) ==
    LET chosen == OBSTACLE_TYPES[typeIdx]
        width == chosen.width * size
        boxes == defs[typeIdx]
        left == boxes[1]
        middle == [boxes[2] EXCEPT !.width = width - left.width - boxes[3].width]
        right == [boxes[3] EXCEPT !.x = width - boxes[3].width]
        multiple == size > 1 /\ Len(boxes) >= 3
    IN  [obstacle |-> [typeIdx |-> typeIdx, type |-> chosen.type, size |-> size,
                       width |-> width, height |-> chosen.height,
                       yPos |-> chosen.yPos[y],
                       collisionBoxes |->
                           [k \in DOMAIN boxes |->
                               IF multiple /\ k = 2 THEN OwnBox(middle)
                               ELSE IF multiple /\ k = 3 THEN OwnBox(right)
                               ELSE SharedBox]],
         defs |-> IF multiple
                  THEN [defs EXCEPT ![typeIdx][2] = middle, ![typeIdx][3] = right]
                  ELSE defs]

\* createNewObstacle past the choice of the type; the obstacle is listed with the
\* currentSpeed it was created at
spawnObstacle ==
    /\ Len(track.obstacles) < MaxObstacles
    /\ \E speed \in {SPEED, MAX_SPEED} :
       \E typeIdx \in {t \in 1 .. Len(OBSTACLE_TYPES) : speed >= OBSTACLE_TYPES[t].minSpeed} :
       \E drawn \in 1 .. MAX_OBSTACLE_LENGTH :
       \E y \in 1 .. Len(OBSTACLE_TYPES[typeIdx].yPos) :
          LET made == newObstacle(track.defs, typeIdx,
                                  sizeAt(OBSTACLE_TYPES[typeIdx], drawn, speed), y)
          IN  track' = [defs |-> made.defs,
                        obstacles |-> Append(track.obstacles,
                                             made.obstacle @@ [speed |-> speed])]
    /\ UNCHANGED <<gameVars, crossover, tournament, obstacleHistory, currentSpeed, agents, agentsPlaying, nn, server, shaping, encoding, arena, diversity, autoStarts, jumper, passing, lane>>

\* updateObstacles drops the first obstacle once it has left the canvas
shiftObstacle ==
    /\ track.obstacles # << >>
    /\ track' = [track EXCEPT !.obstacles = Tail(@)]
    /\ UNCHANGED <<gameVars, crossover, tournament, obstacleHistory, currentSpeed, agents, agentsPlaying, nn, server, shaping, encoding, arena, diversity, autoStarts, jumper, passing, lane>>

\* handleRestart: gameData.obstacles = []
clearObstacles ==
    /\ Len(track.obstacles) > 1
    /\ track' = [track EXCEPT !.obstacles = << >>]
    /\ UNCHANGED <<gameVars, crossover, tournament, obstacleHistory, currentSpeed, agents, agentsPlaying, nn, server, shaping, encoding, arena, diversity, autoStarts, jumper, passing, lane>>

InitHitboxes ==
    /\ GameInit
    /\ stored = NoFile
    /\ UnitIdle({"track"})
    /\ track = [defs |-> [t \in 1 .. Len(OBSTACLE_TYPES) |-> OBSTACLE_TYPES[t].collisionBoxes],
                obstacles |-> << >>]

NextHitboxes == spawnObstacle \/ shiftObstacle \/ clearObstacles

SpecHitboxes == InitHitboxes /\ [][NextHitboxes]_vars

-----------------------------------------------------------------------------
(* checkCollisions on its own: agents and obstacles at positions of the canvas *)

\* the test both phases of checkCollisions apply to two boxes
overlaps(a, b) ==
    /\ a.x < b.x + b.width
    /\ a.x + a.width > b.x
    /\ a.y < b.y + b.height
    /\ a.y + a.height > b.y

\* tRexBox: the agent's bounding box with its 1 pixel border taken off
tRexBoxOf(tRex) ==
    Box(tRex.xPos + 1, tRex.yPos + 1, WIDTH - 2,
        (IF tRex.ducking THEN HEIGHT_DUCK ELSE HEIGHT) - 2)

\* obstacleBox: the same for the obstacle
obstacleBoxOf(obstacle) ==
    Box(obstacle.xPos + 1, obstacle.yPos + 1, obstacle.width - 2, obstacle.height - 2)

\* the simple outer bounds check
outerBoundsOverlap(tRex, obstacle) == overlaps(tRexBoxOf(tRex), obstacleBoxOf(obstacle))

\* tRexCollisionBoxes: the ducking set when ducking, else the running set
tRexCollisionBoxesOf(tRex) ==
    IF tRex.ducking THEN TREX_COLLISION_BOXES.DUCKING ELSE TREX_COLLISION_BOXES.RUNNING

\* a box of a set, adjusted to the actual position of its owner
adjusted(owner, box) == Box(owner.xPos + box.x, owner.yPos + box.y, box.width, box.height)

\* the detailed check: some box of the agent overlaps some box of the obstacle
boxesOverlap(tRex, obstacle) ==
    \E t \in DOMAIN tRexCollisionBoxesOf(tRex) :
    \E o \in DOMAIN obstacle.collisionBoxes :
        overlaps(adjusted(tRex, tRexCollisionBoxesOf(tRex)[t]),
                 adjusted(obstacle, obstacle.collisionBoxes[o]))

\* faulty variant of the obstacles checkCollisions looks at: all of them
checkedAll(obstacles) == {obstacles[k] : k \in DOMAIN obstacles}

\* the obstacles checkCollisions looks at: the first of the list only (updateObstacles
\* has filtered the removed ones out before)
checked(obstacles) == IF Len(obstacles) > 0 THEN {obstacles[1]} ELSE {}

\* the body of the forEach of checkCollisions, for one agent
checkCollision(tRex, obstacles) ==
    IF tRex.alive /\ \E obstacle \in checked(obstacles) :
                        outerBoundsOverlap(tRex, obstacle) /\ boxesOverlap(tRex, obstacle)
    THEN [tRex EXCEPT !.alive = FALSE]
    ELSE tRex

\* where the left edge of an obstacle can be when the check runs: passing behind the
\* agents, over them, reaching the front of a ducking agent
XPositions == {35, 60, 95}

\* an obstacle of the generator, put at xPos; its boxes are those a fresh page gives it
obstacleAt(typeIdx, size, y, xPos) ==
    LET defs == [t \in 1 .. Len(OBSTACLE_TYPES) |-> OBSTACLE_TYPES[t].collisionBoxes]
        made == newObstacle(defs, typeIdx, size, y).obstacle
    IN  [type |-> made.type, xPos |-> xPos, yPos |-> made.yPos, width |-> made.width,
         height |-> made.height, collisionBoxes |-> BoxesOf(made, defs)]

\* the first obstacle of the list, when there is one
FirstObstacles ==
    UNION {{obstacleAt(t, size, y, x) :
               size \in 1 .. 2, y \in 1 .. Len(OBSTACLE_TYPES[t].yPos), x \in XPositions} :
           t \in 1 .. Len(OBSTACLE_TYPES)}

\* the obstacle following it, when there is one
SecondObstacles == {obstacleAt(3, 1, 1, 60)}

ObstacleLists ==
    {<< >>} \cup {<<a>> : a \in FirstObstacles}
            \cup {<<a, b>> : a \in FirstObstacles, b \in SecondObstacles}

\* where an agent can be: running or ducking on the ground, or in the air
Postures ==
    {[ducking |-> FALSE, yPos |-> groundYPos], [ducking |-> TRUE, yPos |-> groundYPos],
     [ducking |-> FALSE, yPos |-> 40]}

\* the end of one update while playing: the agents and the obstacles have moved, then
\* checkCollisions runs if the clear time is over
CollisionTick ==
    /\ \E i \in DOMAIN arena.tRexes : arena.tRexes[i].alive
    /\ \E now \in {CLEAR_TIME, CLEAR_TIME + 1} :
       \E obstacles \in ObstacleLists :
       \E postures \in [DOMAIN arena.tRexes -> Postures] :
          LET moved == [i \in DOMAIN arena.tRexes |->
                           IF arena.tRexes[i].alive
                           THEN [arena.tRexes[i] EXCEPT !.ducking = postures[i].ducking,
                                                        !.yPos = postures[i].yPos]
                           ELSE arena.tRexes[i]]
          IN  arena' = [runningTime |-> now,
                        obstacles |-> obstacles,
                        tRexes |-> IF now > CLEAR_TIME
                                   THEN [i \in DOMAIN moved |->
                                            checkCollision(moved[i], obstacles)]
                                   ELSE moved]
    /\ UNCHANGED <<gameVars, crossover, tournament, obstacleHistory, currentSpeed, agents, agentsPlaying, nn, server, shaping, encoding, track, diversity, autoStarts, jumper, passing, lane>>

\* the update that finds no agent alive: handleGenerationEnd and its handleRestart
CollisionRestart ==
    /\ \A i \in DOMAIN arena.tRexes : ~arena.tRexes[i].alive
    /\ arena' = [runningTime |-> 0, obstacles |-> << >>,
                 tRexes |-> [i \in DOMAIN arena.tRexes |->
                                [arena.tRexes[i] EXCEPT !.alive = TRUE, !.ducking = FALSE,
                                                        !.yPos = groundYPos]]]
    /\ UNCHANGED <<gameVars, crossover, tournament, obstacleHistory, currentSpeed, agents, agentsPlaying, nn, server, shaping, encoding, track, diversity, autoStarts, jumper, passing, lane>>

InitCollisions ==
    /\ GameInit
    /\ stored = NoFile
    /\ UnitIdle({"arena"})
    /\ arena = [runningTime |-> 0, obstacles |-> << >>,
                tRexes |-> [i \in 1 .. T_REX_COUNT |->
                               [alive |-> TRUE, ducking |-> FALSE, xPos |-> START_X_POS,
                                yPos |-> groundYPos]]]

NextCollisions == CollisionTick \/ CollisionRestart

SpecCollisions == InitCollisions /\ [][NextCollisions]_vars

-----------------------------------------------------------------------------
(* The survivor slots of handleGenerationEnd on their own, for populations of 10 and 20 *)

\* population sizes with one and with two random survivors
PopulationSizes == {10, 20}

\* a population whose networks all differ, the i-th holding the weights 10 * i onwards
DistinctNetworks(n) ==
    [i \in 1 .. n |-> NewNetwork(DEFAULT_ARCHITECTURE, Stream(DEFAULT_ARCHITECTURE, 10 * i))]

\* the agent of the previous generation a network of nextNetworks was cloned from
ClonedFrom(nets, net) == CHOOSE i \in 1 .. Len(nets) : getWeights(nets[i]) = getWeights(net)

\* the elite and diversity part of handleGenerationEnd: nextNetworks when the
\* offspring loop begins, as the indices its networks were cloned from
BreedSurvivors ==
    /\ diversity.cloned = << >>
    /\ \E populationSize \in PopulationSizes :
       \E bestIdx \in 1 .. populationSize :
       \E shuffled \in ShuffledPrefixes(populationSize, populationSize \div 10) :
          LET nets == DistinctNetworks(populationSize)
              nextNetworks == Survivors(nets, shuffled, 1, bestIdx, <<clone(nets[bestIdx])>>)
          IN  diversity' = [populationSize |-> populationSize, bestIdx |-> bestIdx,
                            shuffled |-> shuffled,
                            cloned |-> [k \in 1 .. Len(nextNetworks) |->
                                           ClonedFrom(nets, nextNetworks[k])]]
    /\ UNCHANGED <<gameVars, crossover, tournament, obstacleHistory, currentSpeed, agents, agentsPlaying, nn, server, shaping, encoding, track, arena, autoStarts, jumper, passing, lane>>

\* the new generation plays and dies: the next rollover starts from scratch
PlayGeneration ==
    /\ diversity.cloned # << >>
    /\ diversity' = NoDiversity
    /\ UNCHANGED <<gameVars, crossover, tournament, obstacleHistory, currentSpeed, agents, agentsPlaying, nn, server, shaping, encoding, track, arena, autoStarts, jumper, passing, lane>>

InitDiversity ==
    /\ GameInit
    /\ stored = NoFile
    /\ UnitIdle({})

NextDiversity == BreedSurvivors \/ PlayGeneration

SpecDiversity == InitDiversity /\ [][NextDiversity]_vars

-----------------------------------------------------------------------------
(* The jump of one agent on its own: heights in pixels, velocities in tenths of a pixel *)

GRAVITY == 6
DROP_VELOCITY == -50
INIITAL_JUMP_VELOCITY == -100
MAX_JUMP_HEIGHT == 30
MIN_JUMP_HEIGHT == 30

\* deltaTime / tRex.msPerFrame of one update: no time, one frame, a slow frame
FramesElapsed == {0, 1, 3}

\* Math.round of a number given in tenths: the nearest integer, a half going up
round(tenths) == (tenths + 5) \div 10

\* the agent initializeGame pushes, with the fields of the jump
NewJumper ==
    [alive |-> TRUE, jumping |-> FALSE, status |-> "WAITING", reachedMinHeight |-> FALSE,
     yPos |-> groundYPos, groundYPos |-> groundYPos, jumpVelocity |-> 0]

\* startTRexJump, outside a duck
startJump(tRex, speed) ==
    IF ~tRex.jumping
    THEN [updateTRexStatus(tRex, "JUMPING") EXCEPT
             !.jumpVelocity = INIITAL_JUMP_VELOCITY - speed \div 10,
             !.jumping = TRUE,
             !.reachedMinHeight = FALSE]
    ELSE tRex

\* endTRexJump
endTRexJump(tRex) ==
    IF tRex.reachedMinHeight /\ tRex.jumpVelocity < DROP_VELOCITY
    THEN [tRex EXCEPT !.jumpVelocity = DROP_VELOCITY]
    ELSE tRex

\* faulty variant of the landing: yPos is not put back on the ground line
landWhereItIs(tRex) ==
    updateTRexStatus([tRex EXCEPT !.jumping = FALSE, !.jumpVelocity = 0,
                                  !.reachedMinHeight = FALSE],
                     "RUNNING")

\* the landing of updateTRexJump
land(tRex) ==
    updateTRexStatus([tRex EXCEPT !.yPos = tRex.groundYPos, !.jumping = FALSE,
                                  !.jumpVelocity = 0, !.reachedMinHeight = FALSE],
                     "RUNNING")

\* updateTRexJump; speedDrop is false throughout, nothing ever sets it
moveJump(tRex, framesElapsed) ==
    LET moved == [tRex EXCEPT !.yPos = @ + round(tRex.jumpVelocity * framesElapsed),
                              !.jumpVelocity = @ + GRAVITY * framesElapsed]
        risen == IF moved.yPos < moved.groundYPos - MIN_JUMP_HEIGHT
                 THEN [moved EXCEPT !.reachedMinHeight = TRUE] ELSE moved
        capped == IF risen.yPos < MAX_JUMP_HEIGHT THEN endTRexJump(risen) ELSE risen
    IN  IF capped.yPos >= capped.groundYPos THEN land(capped) ELSE capped

\* handleStart
JumpStart ==
    /\ jumper.tRex.status = "WAITING"
    /\ jumper' = [tRex |-> updateTRexStatus(jumper.tRex, "RUNNING"), landed |-> FALSE,
                  from |-> jumper.tRex.yPos]
    /\ UNCHANGED <<gameVars, crossover, tournament, obstacleHistory, currentSpeed, agents, agentsPlaying, nn, server, shaping, encoding, track, arena, diversity, autoStarts, passing, lane>>

\* one update of a run for an alive agent: the network may select the jump, then
\* updateAllTRexes moves a jumping agent, then checkCollisions; landed notes that the
\* jump ended in this update, from the yPos the update found
JumpTick ==
    /\ jumper.tRex.status # "WAITING"
    /\ jumper.tRex.alive
    /\ \E jumps \in BOOLEAN, hit \in BOOLEAN :
       \E speed \in {SPEED, MAX_SPEED} :
       \E framesElapsed \in FramesElapsed :
          LET selected == IF jumps THEN startJump(jumper.tRex, speed) ELSE jumper.tRex
              moved == IF selected.jumping THEN moveJump(selected, framesElapsed)
                       ELSE selected
          IN  jumper' = [tRex |-> collide(moved, hit),
                         landed |-> selected.jumping /\ ~moved.jumping,
                         from |-> jumper.tRex.yPos]
    /\ UNCHANGED <<gameVars, crossover, tournament, obstacleHistory, currentSpeed, agents, agentsPlaying, nn, server, shaping, encoding, track, arena, diversity, autoStarts, passing, lane>>

\* handleRestart, from the button or at the rollover after the agent has died
JumpRestart ==
    /\ jumper.tRex.status # "WAITING"
    /\ jumper' = [tRex |-> updateTRexStatus([jumper.tRex EXCEPT
                                                !.yPos = jumper.tRex.groundYPos,
                                                !.jumping = FALSE,
                                                !.jumpVelocity = 0,
                                                !.alive = TRUE],
                                            "WAITING"),
                  landed |-> FALSE, from |-> jumper.tRex.yPos]
    /\ UNCHANGED <<gameVars, crossover, tournament, obstacleHistory, currentSpeed, agents, agentsPlaying, nn, server, shaping, encoding, track, arena, diversity, autoStarts, passing, lane>>

InitJump ==
    /\ GameInit
    /\ stored = NoFile
    /\ UnitIdle({"jumper"})
    /\ jumper = [tRex |-> NewJumper, landed |-> FALSE, from |-> groundYPos]

NextJump == JumpStart \/ JumpTick \/ JumpRestart

SpecJump == InitJump /\ [][NextJump]_vars

-----------------------------------------------------------------------------
(* The pass bonus on its own: obstacles moving past the agents *)

\* canvas.width, where createNewObstacle puts an obstacle
CanvasWidth == 600

\* how far one update can move an obstacle: Math.floor(effectiveSpeed * FPS / 1000 *
\* deltaTime) for a few frames and for a long run of them
Steps == {30, 285}

\* faulty variant of the once-only test: rewardedBy is not consulted
firstPassAlways(ob, id) == TRUE

\* !o.rewardedBy[trex.id]
firstPass(ob, id) == id \notin ob.rewardedBy

\* ob.xPos + ob.width < trex.xPos, all agents standing at START_X_POS
passedBy(ob) == ob.xPos + ob.width < START_X_POS

\* the pass reward loop of update, for every alive agent: the obstacles with
\* rewardedBy filled in; granted counts the bonuses each agent got from the obstacle
rewardPasses(obstacles, alive) ==
    [k \in DOMAIN obstacles |->
        LET ob == obstacles[k]
            winners == {i \in alive : passedBy(ob) /\ firstPass(ob, i)}
        IN  [ob EXCEPT !.rewardedBy = @ \cup winners,
                       !.granted = [i \in DOMAIN @ |->
                                       IF i \in winners THEN @[i] + 1 ELSE @[i]]]]

\* the second half of updateObstacles: every obstacle moves left, and those that have
\* left the canvas are dropped
moveObstacles(obstacles, step) ==
    LET OnCanvas(ob) == ~(ob.xPos + ob.width < 0)
    IN  SelectSeq([k \in DOMAIN obstacles |-> [obstacles[k] EXCEPT !.xPos = @ - step]],
                  OnCanvas)

\* one update of a run after the clear time: the control loop pays the pass bonus,
\* updateObstacles may append an obstacle and moves them all, checkCollisions may
\* kill agents, and handleGenerationEnd restarts when none is left; scored keeps the
\* obstacles as the reward loop left them
PassTick ==
    /\ \E spawn \in {n \in BOOLEAN : n => Len(passing.obstacles) < MaxObstacles} :
       \E typeIdx \in 1 .. Len(OBSTACLE_TYPES) :
       \E step \in Steps :
       \E dies \in SUBSET passing.alive :
          LET scored == rewardPasses(passing.obstacles, passing.alive)
              fresh == [xPos |-> CanvasWidth, width |-> OBSTACLE_TYPES[typeIdx].width,
                        rewardedBy |-> {}, granted |-> [i \in 1 .. T_REX_COUNT |-> 0]]
              moved == moveObstacles(IF spawn THEN Append(scored, fresh) ELSE scored, step)
              alive == passing.alive \ dies
          IN  /\ (dies # {} => moved # << >>)
              /\ passing' = IF AllDead(Cardinality(alive))
                             THEN [obstacles |-> << >>, alive |-> 1 .. T_REX_COUNT,
                                   scored |-> scored]
                             ELSE [obstacles |-> moved, alive |-> alive, scored |-> scored]
    /\ UNCHANGED <<gameVars, crossover, tournament, obstacleHistory, currentSpeed, agents, agentsPlaying, nn, server, shaping, encoding, track, arena, diversity, autoStarts, jumper, lane>>

InitPassing ==
    /\ GameInit
    /\ stored = NoFile
    /\ UnitIdle({"passing"})
    /\ passing = [obstacles |-> << >>, alive |-> 1 .. T_REX_COUNT, scored |-> << >>]

NextPassing == PassTick

SpecPassing == InitPassing /\ [][NextPassing]_vars

-----------------------------------------------------------------------------
(* updateObstacles on its own: when obstacles are appended to gameData.obstacles *)

\* GAP_COEFFICIENT, in tenths
GAP_COEFFICIENT == 6

\* the least gap createNewObstacle can draw: Math.round(chosen.width * size *
\* currentSpeed + chosen.minGap * GAP_COEFFICIENT)
minGapOf(chosen, size, speed) == round(chosen.width * size * speed + chosen.minGap * GAP_COEFFICIENT)

\* getRandomNum(min, Math.round(min * 1.5)) at its two ends
GapDraws(chosen, size, speed) ==
    {minGapOf(chosen, size, speed), round(minGapOf(chosen, size, speed) * 15)}

\* the sizes getRandomNum(1, MAX_OBSTACLE_LENGTH) is taken from here: its two ends
SizeDraws == {1, MAX_OBSTACLE_LENGTH}

\* the obstacles createNewObstacle(canvas.width) can return for a chosen type; none for
\* "null", the tenth rejected draw
Created(type, speed) ==
    IF type = "null" THEN {NoObstacle}
    ELSE LET chosen == OBSTACLE_TYPES[CHOOSE t \in 1 .. Len(OBSTACLE_TYPES) :
                                          OBSTACLE_TYPES[t].type = type]
         IN  {[type |-> type, xPos |-> CanvasWidth,
               width |-> chosen.width * sizeAt(chosen, drawn, speed),
               gap |-> gap, followingObstacleCreated |-> FALSE] :
                  drawn \in SizeDraws,
                  gap \in UNION {GapDraws(chosen, sizeAt(chosen, d, speed), speed) :
                                     d \in SizeDraws}}

\* faulty variant of the test for a successor: the gap of the last obstacle is ignored
hasRoomAnywhere(last) == ~last.followingObstacleCreated

\* the test for a successor of the last obstacle
hasRoom(last) ==
    ~last.followingObstacleCreated /\ last.xPos + last.width + last.gap < CanvasWidth

\* faulty variant of the flag update: set whether or not an obstacle was created
markFollowedAlways(last, next) == [last EXCEPT !.followingObstacleCreated = TRUE]

\* if (next) { ...; last.followingObstacleCreated = true }
markFollowed(last, next) ==
    IF next # NoObstacle THEN [last EXCEPT !.followingObstacleCreated = TRUE] ELSE last

\* createNewObstacle is due: the clear time is over and the list is empty or its last
\* obstacle has room behind it
spawnDue(now, obstacles) ==
    /\ now > CLEAR_TIME
    /\ obstacles = << >> \/ hasRoom(obstacles[Len(obstacles)])

\* the first half of updateObstacles, given what createNewObstacle returned
appendObstacle(obstacles, next) ==
    IF obstacles = << >>
    THEN (IF next # NoObstacle THEN <<next>> ELSE << >>)
    ELSE [obstacles EXCEPT ![Len(obstacles)] = markFollowed(@, next)]
         \o (IF next # NoObstacle THEN <<next>> ELSE << >>)

\* one update of a run, as far as the obstacles go: runningTime grows, updateObstacles
\* appends at most what createNewObstacle returns, moves every obstacle and drops
\* those off the canvas; appended, failed and step note what the update did
LaneTick ==
    /\ \E now \in {t \in {CLEAR_TIME, CLEAR_TIME + 1} : t >= lane.runningTime} :
       \E step \in Steps :
          IF spawnDue(now, lane.obstacles)
          THEN \E type \in Chosen(obstacleHistory, currentSpeed, 0) :
               \E next \in Created(type, currentSpeed) :
                  /\ obstacleHistory' = IF type = "null" THEN obstacleHistory
                                         ELSE unshiftHistory(obstacleHistory, type)
                  /\ lane' = [runningTime |-> now,
                              obstacles |-> moveObstacles(appendObstacle(lane.obstacles, next),
                                                          step),
                              appended |-> IF next # NoObstacle THEN 1 ELSE 0,
                              failed |-> next = NoObstacle,
                              step |-> step]
          ELSE /\ obstacleHistory' = obstacleHistory
               /\ lane' = [runningTime |-> now,
                           obstacles |-> moveObstacles(lane.obstacles, step),
                           appended |-> 0, failed |-> FALSE, step |-> step]
    /\ currentSpeed' = currentSpeed
    /\ UNCHANGED <<gameVars, crossover, tournament, agents, agentsPlaying, nn, server, shaping, encoding, track, arena, diversity, autoStarts, jumper, passing>>

\* handleRestart, from the button or at a rollover: the list is emptied, the history stays
LaneRestart ==
    /\ lane.runningTime > 0
    /\ lane' = NoLane
    /\ UNCHANGED <<obstacleHistory, currentSpeed>>
    /\ UNCHANGED <<gameVars, crossover, tournament, agents, agentsPlaying, nn, server, shaping, encoding, track, arena, diversity, autoStarts, jumper, passing>>

InitLane ==
    /\ GameInit
    /\ stored = NoFile
    /\ UnitIdle({})

NextLane == LaneTick \/ LaneRestart

SpecLane == InitLane /\ [][NextLane]_vars



\* the agent ranked first by descending fitness: a maximal fitness, the lowest such index
BestAgent(fit) ==
    CHOOSE i \in 1 .. Len(fit) :
        /\ \A j \in 1 .. Len(fit) : fit[j] <= fit[i]
        /\ \A j \in 1 .. (i - 1) : fit[j] < fit[i]

\* the slots of a population whose weight vector equals w element for element
SlotsEqualTo(nets, w) == {i \in 1 .. Len(nets) : getWeights(nets[i]) = w}

\* C1: the numbers of networks, of fitness entries and of agents all equal the
\* population size in every state, whatever ticks, restarts and rollovers happened.
PopulationSizeInvariant ==
    /\ Len(networks) = T_REX_COUNT
    /\ Len(fitness) = T_REX_COUNT
    /\ Len(tRexes) = T_REX_COUNT

\* C1 witness: a rollover has replaced the population and the load has seeded it.
PopulationAfterRollover ==
    /\ rollovers >= 1
    /\ seedLoad = "done"
    /\ pc = "idle"
    /\ Len(networks) = T_REX_COUNT

\* C2: at every rollover, slot 0 of the new population has the weight vector of the
\* old population's agent ranked first by fitness, element for element.
EliteIsBestClone ==
    [][pc = "handleGenerationEnd" =>
          getWeights(networks'[1]) = getWeights(networks[BestAgent(fitness)])]_vars

\* C2 witness: after a rollover of the unseeded initial population, slot 0 holds the
\* weights of the initial agent 2, which was the fitter one, and slot 1 differs.
EliteFromSecondAgent ==
    /\ rollovers = 1
    /\ seedLoad = "pending"
    /\ getWeights(networks[1]) = Stream(DEFAULT_ARCHITECTURE, 20)
    /\ getWeights(networks[2]) # getWeights(networks[1])

\* C3 as stated: after a rollover exactly one network of the new population has the
\* weight vector of the old population's best agent.
ExactlyOneEliteCopy ==
    [][pc = "handleGenerationEnd" =>
          Cardinality(SlotsEqualTo(networks', getWeights(networks[BestAgent(fitness)]))) = 1]_vars

\* C3 amended: after a rollover at least one network of the new population has the
\* weight vector of the old population's best agent, slot 0 being one of them; other
\* slots may hold the same vector.
AtLeastOneEliteCopy ==
    [][pc = "handleGenerationEnd" =>
          LET copies == SlotsEqualTo(networks', getWeights(networks[BestAgent(fitness)]))
          IN  1 \in copies /\ Cardinality(copies) >= 1]_vars

\* C3 witness: after a rollover of the unseeded initial population, whose networks
\* differ, a child is an element-for-element copy of the elite.
ChildEqualsElite ==
    /\ rollovers = 1
    /\ seedLoad = "pending"
    /\ getWeights(networks[2]) = getWeights(networks[1])

\* C4: the best-ever fitness never decreases, and the best-ever record changes only
\* at a rollover whose best fitness strictly exceeds it, to that fitness and the
\* weights of that generation's best agent.
BestEverMonotonic ==
    [][/\ bestFitness' >= bestFitness
       /\ (bestFitness' # bestFitness \/ bestWeights' # bestWeights) =>
              /\ pc = "handleGenerationEnd"
              /\ fitness[BestAgent(fitness)] > bestFitness
              /\ bestFitness' = fitness[BestAgent(fitness)]
              /\ bestWeights' = getWeights(networks[BestAgent(fitness)])
       /\ (pc = "handleGenerationEnd" /\ fitness[BestAgent(fitness)] <= bestFitness) =>
              (bestFitness' = bestFitness /\ bestWeights' = bestWeights)]_vars

\* C4 witness: a rollover whose best fitness exceeded the stored one has recorded it
\* together with the weights of the unseeded initial agent 2.
BestEverRaised ==
    /\ rollovers = 1
    /\ bestFitness = 1
    /\ bestWeights = Stream(DEFAULT_ARCHITECTURE, 20)

\* C5: no step of a running generation changes the fitness of an agent that is not
\* alive; only the rollover, which starts the next generation, replaces it.
DeadFitnessFrozen ==
    [][\A i \in 1 .. Len(tRexes) :
          (pc = "idle" /\ ~tRexes[i].alive) => fitness'[i] = fitness[i]]_vars

\* C5 witness: an agent is dead, another is alive, and their fitness differs in parity.
\* Every tick adds an odd amount to each agent it scores and both started the
\* generation at 0, so a tick has run that scored the live agent and not the dead one.
TickWithDeadAgent ==
    /\ pc = "idle"
    /\ \E i, j \in 1 .. Len(tRexes) :
          /\ ~tRexes[i].alive
          /\ tRexes[j].alive
          /\ (fitness[i] + fitness[j]) % 2 = 1

\* C6: handleGenerationEnd runs only with no agent alive, in the tick in which the
\* last agent dies, and nowhere else: that tick raises the generation counter by
\* exactly 1 and replaces the population with fresh agents and zeroed fitness.
RolloverOncePerGeneration ==
    [][/\ pc = "handleGenerationEnd" => AliveSet(tRexes) = {}
       /\ (pc = "idle" /\ AliveSet(tRexes) # {} /\ AliveSet(tRexes') = {}) =>
              pc' = "handleGenerationEnd"
       /\ pc = "handleGenerationEnd" =>
              /\ generation' = generation + 1
              /\ rollovers' = rollovers + 1
              /\ pc' = "idle"
              /\ \A i \in 1 .. Len(tRexes') : tRexes'[i].alive /\ fitness'[i] = 0
       /\ rollovers' # rollovers => pc = "handleGenerationEnd"]_vars

\* C6 witness: the first rollover has happened.
FirstRolloverDone ==
    /\ rollovers = 1
    /\ generation = 1
    /\ pc = "idle"
    /\ \A i \in 1 .. Len(tRexes) : tRexes[i].alive /\ fitness[i] = 0

\* C7 as stated: the generation counter never decreases, also when the checkpoint
\* load of initializeGame completes after a rollover.
GenerationNeverDecreases == [][generation' >= generation]_vars

\* C8 as stated: after every rollover a tick is scheduled for the new generation or a
\* start is armed, whether or not auto-run is enabled.
LoopRestartsAfterRollover ==
    [][pc = "handleGenerationEnd" =>
          \/ playing' /\ (animationFrameRef'.pending \/ staleFrames' > 0)
          \/ startTimers' > startTimers]_vars

\* C8 amended: a rollover leaves the simulation stopped and waiting, with the frame
\* held by animationFrameRef cancelled; it arms one start timer exactly when auto-run
\* is enabled, and a timer that fires starts the loop only if auto-run is still enabled.
RolloverStopsUnlessAutoRun ==
    [][/\ pc = "handleGenerationEnd" =>
              /\ ~playing'
              /\ gameState' = "waiting"
              /\ ~animationFrameRef'.pending
              /\ startTimers' = startTimers + (IF autoRunRef THEN 1 ELSE 0)
       /\ startTimers' < startTimers =>
              playing' = (playing \/ autoRunRef)]_vars

\* C8 witness: after a rollover with auto-run off the game waits with nothing scheduled.
WaitingAfterRollover ==
    /\ rollovers = 1
    /\ pc = "idle"
    /\ ~autoRunRef
    /\ ~playing
    /\ startTimers = 0
    /\ ~animationFrameRef.pending
    /\ staleFrames = 0
    /\ animationFrameRef.set

\* C9 as stated: the child of any two vectors has the length of the shorter one.
ChildLengthIsMin ==
    crossover.called => Len(crossover.child) = Min2(Len(crossover.a), Len(crossover.b))

\* C10 as stated: for equal-length parents of length len >= 2 the child is a[0:p]
\* followed by b[p:len] with 1 <= p <= len - 2.
CutPointBelowLastIndex ==
    (crossover.called /\ Len(crossover.a) = Len(crossover.b) /\ Len(crossover.a) >= 2) =>
        /\ 1 <= crossover.point /\ crossover.point <= Len(crossover.a) - 2
        /\ Len(crossover.child) = Len(crossover.a)
        /\ \A i \in 1 .. Len(crossover.a) :
               crossover.child[i] = IF i <= crossover.point THEN crossover.a[i]
                                    ELSE crossover.b[i]

\* C10 amended: for equal-length parents of length len >= 2 the child is a[0:p]
\* followed by b[p:len] with 1 <= p <= len - 1, so it takes at least one element
\* from each parent.
CutPointWithinParents ==
    (crossover.called /\ Len(crossover.a) = Len(crossover.b) /\ Len(crossover.a) >= 2) =>
        /\ 1 <= crossover.point /\ crossover.point <= Len(crossover.a) - 1
        /\ Len(crossover.child) = Len(crossover.a)
        /\ \A i \in 1 .. Len(crossover.a) :
               crossover.child[i] = IF i <= crossover.point THEN crossover.a[i]
                                    ELSE crossover.b[i]
        /\ crossover.child[1] = crossover.a[1]
        /\ crossover.child[Len(crossover.a)] = crossover.b[Len(crossover.a)]

\* C10 witness: a call on parents of length 3 has cut at the last index, 2.
CutAtLastIndex ==
    /\ crossover.called
    /\ Len(crossover.a) = 3
    /\ Len(crossover.b) = 3
    /\ crossover.point = 2
    /\ crossover.child = <<crossover.a[1], crossover.a[2], crossover.b[3]>>

\* the individuals whose fitness is strictly higher than every other one's
Dominant(fit) == {i \in 1 .. Len(fit) : \A j \in 1 .. Len(fit) : j # i => fit[j] < fit[i]}

\* C11 as stated: with exactly one individual of strictly highest fitness and k equal
\* to the population size, every slot of the pool buildParentsPool returns is that
\* individual.
DominantFillsPool ==
    (tournament.called /\ tournament.k = Len(tournament.fitness)
                       /\ Dominant(tournament.fitness) # {}) =>
        \A slot \in 1 .. Len(tournament.pool) :
            tournament.pool[slot] \in Dominant(tournament.fitness)

\* C12: the obstacle history never holds more than 3 entries nor more than
\* MAX_OBSTACLE_DUPLICATION consecutive identical types, and a restart or rollover,
\* which puts the speed back to SPEED, leaves the history as it was.
HistoryBounded ==
    [][/\ Len(obstacleHistory') <= 3
       /\ \A i \in 1 .. (Len(obstacleHistory') - MAX_OBSTACLE_DUPLICATION) :
              \E j \in 1 .. MAX_OBSTACLE_DUPLICATION :
                  obstacleHistory'[i + j] # obstacleHistory'[i]
       /\ (currentSpeed > SPEED /\ currentSpeed' = SPEED) =>
              obstacleHistory' = obstacleHistory]_vars

\* C12 witness: after a restart the history is full and still holds a pterodactyl,
\* which only a faster earlier run can have spawned.
HistoryCarriedOver ==
    /\ currentSpeed = SPEED
    /\ Len(obstacleHistory) = 3
    /\ obstacleHistory[3] = "PTERODACTYL"

\* C13: no agent is ever jumping and ducking at the same time.
JumpDuckExclusive ==
    \A i \in DOMAIN agents : ~(agents[i].jumping /\ agents[i].ducking)

\* C13 witness: while playing, one agent is in the air and another is ducking.
OneJumpsOneDucks ==
    /\ agentsPlaying
    /\ \E i, j \in DOMAIN agents :
          /\ agents[i].alive /\ agents[i].jumping /\ agents[i].status = "JUMPING"
          /\ agents[j].alive /\ agents[j].ducking /\ agents[j].status = "DUCKING"

\* C14 as stated: an agent a collision kills gets the status CRASHED and keeps it while
\* it is dead, and only a dead agent has the status CRASHED.
KilledIsCrashed ==
    [][\A i \in DOMAIN agents' :
          /\ ~agents'[i].alive => agents'[i].status = "CRASHED"
          /\ agents'[i].status = "CRASHED" => ~agents'[i].alive]_vars

\* C15: a predict call whose input length differs from architecture.inputSize fails
\* with an error and leaves the object, its cached last* arrays and every weight array
\* in memory as they were; a call with the right length does not fail.
PredictShapeMismatch ==
    [][nn'.call.op = "predict" /\ nn'.ops # nn.ops =>
          LET obj == Objects(nn)[nn'.call.target]
          IN  /\ nn'.call.error = (Len(nn'.call.arg) # obj.architecture.inputSize)
              /\ nn'.call.error =>
                     /\ nn'.memory = nn.memory
                     /\ Objects(nn') = Objects(nn)]_vars

\* C15 witness: a predict with a wrong input length has failed on an object whose
\* cached activations an earlier predict had filled.
FailedPredictAfterPredict ==
    /\ nn.call.op = "predict"
    /\ nn.call.error
    /\ Len(nn.call.arg) # InputSize
    /\ Objects(nn)[nn.call.target].lastOutputs # << >>

NoSharedStorage ==
    [][/\ \A t, u \in 1 .. Len(Objects(nn')) :
              t # u => Storage(Objects(nn')[t]) \cap Storage(Objects(nn')[u]) = {}
       /\ (nn'.call.op = "clone" /\ nn'.ops # nn.ops) =>
              /\ getWeights(Deref(Objects(nn')[Len(Objects(nn'))], nn'.memory))
                     = getWeights(Deref(Objects(nn)[nn'.call.target], nn.memory))
              /\ \A t \in 1 .. Len(Objects(nn)) :
                     Deref(Objects(nn')[t], nn'.memory) = Deref(Objects(nn)[t], nn.memory)
       /\ (nn'.call.op = "setWeights" /\ nn'.ops # nn.ops) =>
              \A t \in 1 .. Len(Objects(nn)) :
                  t # nn'.call.target =>
                      Deref(Objects(nn')[t], nn'.memory) = Deref(Objects(nn)[t], nn.memory)
       /\ (nn'.call.op = "rollover" /\ nn'.ops # nn.ops) =>
              /\ \A t \in 1 .. Len(nn'.networks), u \in 1 .. Len(nn.networks) :
                     Storage(nn'.networks[t]) \cap Storage(nn.networks[u]) = {}
              /\ \A u \in 1 .. Len(nn.networks) :
                     Deref(nn.networks[u], nn'.memory) = Deref(nn.networks[u], nn.memory)]_vars

\* C17 witness: after a rollover a later setWeights has changed the elite, and the old
\* best, kept apart, still has the weights the elite was cloned with.
EliteChangedOldBestKept ==
    /\ nn.call.op = "setWeights"
    /\ nn.call.target = 1
    /\ Len(nn.others) = T_REX_COUNT
    /\ \E u \in 1 .. Len(nn.others) :
          getWeights(Deref(nn.others[u], nn.memory))
              = Stream(DEFAULT_ARCHITECTURE, 10 * u)

\* what the page holds in memory, apart from its requests in flight
memoryVars == <<tRexes, networks, fitness, generation, bestFitness, bestWeights, playing,
                crashed, gameState, runningTime, animationFrameRef, staleFrames,
                autoRunRef, startTimers, pc, panel>>

\* C18: persistence never feeds back into the loop: a rollover that update has called
\* has a next population to install, whatever requests are in flight and whatever the
\* file holds; it only adds its requests and leaves the file alone; its counter, fitness array, elite
\* and stopped state come from the memory alone; and a write that settles, written
\* or failed, changes nothing the page holds in memory.
WritesNeverFeedBack ==
    [][/\ pc' = "handleGenerationEnd" => NextNetworks(networks', fitness') # {}
       /\ (pc = "handleGenerationEnd" /\ pc' = "idle") =>
           /\ saveRequests' = saveRequests \cup Posts(networks, generation + 1, bestWeights')
           /\ stored' = stored
           /\ generation' = generation + 1
           /\ fitness' = [i \in DOMAIN networks |-> 0]
           /\ networks'[1] = clone(networks[indices(fitness)[1]])
           /\ bestFitness' = Max2(bestFitness, fitness[indices(fitness)[1]])
           /\ ~playing' /\ gameState' = "waiting"
       /\ (saveRequests' # saveRequests /\ saveRequests' \subseteq saveRequests) =>
           UNCHANGED memoryVars
       /\ (pc = "idle" /\ pc' = "idle" /\ seedLoad' = seedLoad) =>
           (stored' = stored \/ UNCHANGED memoryVars)]_vars

\* C18 witness: the rollover is over and its generation stands though every write it
\* sent has failed: the best weights are set, nothing is in flight, no file exists.
RolledOverAllWritesFailed ==
    /\ rollovers = 1
    /\ generation = 1
    /\ bestWeights # NULL
    /\ saveRequests = {}
    /\ stored = NoFile

\* the population array of the stored file, empty when the file or the array is absent
StoredPopulation ==
    IF stored.exists /\ "population" \in DOMAIN stored THEN stored.population ELSE << >>

\* C19: when the fetch of the stored checkpoint completes, either nothing changes (the
\* fetch failed or no file exists: all networks and the generation stay as they were,
\* fresh and 0), or, with m stored individuals and N networks, each of the first
\* min(m, N) networks whose stored entry has a weights array takes the stored weights,
\* and every other network keeps its freshly initialized weights.
SeedsCoveredNetworks ==
    [][(seedLoad = "pending" /\ seedLoad' = "done") =>
          LET pop == StoredPopulation
              n == Min2(Len(networks), Len(pop))
              fresh == [i \in DOMAIN networks |->
                           NewNetwork(DEFAULT_ARCHITECTURE, Stream(DEFAULT_ARCHITECTURE, 10 * i))]
          IN  /\ Len(networks') = T_REX_COUNT
              /\ ~stored.exists => (networks' = fresh /\ generation' = 0)
              /\ \/ networks' = fresh /\ generation' = 0
                 \/ /\ stored.exists
                    /\ \A i \in DOMAIN networks :
                          IF i <= n /\ "weights" \in DOMAIN pop[i]
                          THEN \A k \in 1 .. Min2(Len(pop[i].weights),
                                                  getTotalWeights(DEFAULT_ARCHITECTURE)) :
                                   getWeights(networks'[i])[k] = pop[i].weights[k]
                          ELSE networks'[i] = fresh[i]]_vars

\* C19 witness: a file of more individuals than networks, the second without a weights
\* array, has seeded the first network and left the second one fresh.
SeededAroundMissingWeights ==
    /\ seedLoad = "done"
    /\ Len(StoredPopulation) = T_REX_COUNT + 1
    /\ "weights" \in DOMAIN StoredPopulation[1]
    /\ "weights" \notin DOMAIN StoredPopulation[2]
    /\ getWeights(networks[1]) = StoredPopulation[1].weights
    /\ networks[2] = NewNetwork(DEFAULT_ARCHITECTURE, Stream(DEFAULT_ARCHITECTURE, 20))

\* C20: a reset that has replaced the stored checkpoint leaves the simulation with the
\* population of that checkpoint: each network has the weights of its individual and
\* the generation counter is the checkpoint's, 0.
ResetReinitializesPopulation ==
    [][(stored' # stored /\ panel'.weights = stored'.population[1].weights) =>
          /\ generation' = stored'.generation
          /\ generation' = 0
          /\ \A i \in DOMAIN networks' :
                 getWeights(networks'[i]) = stored'.population[i].weights]_vars

\* C21: after any reset request, answered with success or failing at any step, the
\* stored checkpoint and the stored best-weights record are both the supplied ones or
\* both what they were; a request missing either part changes neither.
ResetReplacesBothOrNeither ==
    [][server'.request.step # "none" =>
          /\ \/ /\ server'.checkpoint = server.checkpoint
                /\ server'.best = server.best
             \/ /\ ~missingPart(server'.request.payload)
                /\ server'.checkpoint = server'.request.payload.checkpoint
                /\ server'.best = server'.request.payload.best
          /\ missingPart(server'.request.payload) =>
                (server'.checkpoint = server.checkpoint /\ server'.best = server.best)]_vars

\* C22: at most one tick callback is queued at any time, whatever the order of the
\* Start button, the Restart/kill button, the auto-run timer and the rescheduling of
\* the tick handler: no callback waits beside the one animationFrameRef holds.
OneTickCallbackPending ==
    (IF animationFrameRef.pending THEN 1 ELSE 0) + staleFrames <= 1

\* C23: whenever a run starts ticking, by handleStart after construction, after a
\* rollover or after a manual restart/kill, the accumulated fitness of every agent
\* is 0.
RunStartsWithZeroFitness ==
    [][(~playing /\ playing') => \A i \in DOMAIN fitness' : fitness'[i] = 0]_vars

\* C24: the reward of 100 is added to an agent's fitness only in a tick after whose
\* action the agent is ducking, the nearest obstacle being a low pterodactyl closer
\* than 100; an agent that is in mid-jump never receives it.
DuckRewardOnlyWhenDucking ==
    [][(\E k \in DOMAIN shaping'.added : shaping'.added[k] = 100) =>
          /\ shaping'.closest.type = "PTERODACTYL"
          /\ isLow(shaping'.closest)
          /\ shaping'.minDist < 100
          /\ shaping'.tRex.ducking
          /\ ~shaping'.tRex.jumping]_vars

\* C25: in every tick that follows a tick of the same run with an obstacle ahead in
\* both, each alive agent's dDistance comes from the distance of the preceding tick, not
\* from a value another agent wrote earlier in the same tick; so all alive agents
\* receive the same dDistance.
DeltaFromPrecedingTick ==
    [][(encoding.minDistance \notin {Undefined, Infinity}
            /\ encoding'.minDistance \notin {Undefined, Infinity}) =>
          \A a \in encoding'.alive :
              /\ encoding'.dDistance[a]
                     = Max2(0 - 10, Min2(10, ((encoding.minDistance - encoding'.minDistance)
                                                 * FPS * 10) \div 600))
              /\ \A b \in encoding'.alive : encoding'.dDistance[a] = encoding'.dDistance[b]]_vars


\* C26: creating a multi-unit obstacle changes the sub-hitboxes of that obstacle only:
\* the boxes of the per-type definitions and of every obstacle of size 1, already on
\* the track or created later, stay the type's original boxes.
HitboxesStayOriginal ==
    /\ \A t \in DOMAIN track.defs : track.defs[t] = OBSTACLE_TYPES[t].collisionBoxes
    /\ \A o \in DOMAIN track.obstacles :
          track.obstacles[o].size = 1 =>
              BoxesOf(track.obstacles[o], track.defs)
                  = OBSTACLE_TYPES[track.obstacles[o].typeIdx].collisionBoxes


\* C27: the outer bounds check is conservative: whenever the collision check runs and
\* some box of an alive agent, for its posture, overlaps some box of the first
\* obstacle, the agent is killed in that tick, running, jumping or ducking.
OverlapAlwaysKills ==
    [][\A i \in DOMAIN arena.tRexes :
          (/\ arena.tRexes[i].alive
           /\ arena'.runningTime > CLEAR_TIME
           /\ arena'.obstacles # << >>
           /\ boxesOverlap(arena'.tRexes[i], arena'.obstacles[1]))
          => ~arena'.tRexes[i].alive]_vars

\* C28: a pterodactyl the fitness rule calls low, at either height of the generator,
\* never kills an agent that is ducking on the ground, wherever the pterodactyl is.
DuckingSurvivesLowPterodactyl ==
    [][\A i \in DOMAIN arena.tRexes :
          (/\ arena.tRexes[i].alive
           /\ arena'.tRexes[i].ducking
           /\ arena'.tRexes[i].yPos = groundYPos
           /\ arena'.obstacles # << >>
           /\ arena'.obstacles[1].type = "PTERODACTYL"
           /\ isLow(arena'.obstacles[1]))
          => arena'.tRexes[i].alive]_vars

\* C29: an agent dies only in a tick after the clear time in which its bounding box
\* and one of the boxes of its posture overlap the first obstacle of the list: never
\* during the clear time, with an empty list, or by a later obstacle.
DiesOnlyByFirstObstacle ==
    [][\A i \in DOMAIN arena.tRexes :
          (arena.tRexes[i].alive /\ ~arena'.tRexes[i].alive)
          => /\ arena'.runningTime > CLEAR_TIME
             /\ arena'.obstacles # << >>
             /\ outerBoundsOverlap(arena'.tRexes[i], arena'.obstacles[1])
             /\ boxesOverlap(arena'.tRexes[i], arena'.obstacles[1])]_vars

\* one agent has died on the first obstacle while another, alive, overlaps the second
KilledByFirstSparedBySecond ==
    /\ arena.runningTime > CLEAR_TIME
    /\ Len(arena.obstacles) = 2
    /\ \E i, j \in DOMAIN arena.tRexes :
          /\ ~arena.tRexes[i].alive
          /\ outerBoundsOverlap(arena.tRexes[i], arena.obstacles[1])
          /\ boxesOverlap(arena.tRexes[i], arena.obstacles[1])
          /\ arena.tRexes[j].alive
          /\ outerBoundsOverlap(arena.tRexes[j], arena.obstacles[2])
          /\ boxesOverlap(arena.tRexes[j], arena.obstacles[2])


\* C30: the checkpoint load started by initializeGame changes weights only before the
\* first run: when it completes while a run is ticking, or after a rollover has bred
\* a new population, it leaves every network as it is.
LateLoadKeepsNetworks ==
    [][(seedLoad = "pending" /\ seedLoad' = "done" /\ (playing \/ rollovers > 0))
       => networks' = networks]_vars


\* C31: the checkpoint posted at a rollover pairs the generation number g+1 with the
\* weights of the newly bred networks, the population that plays generation g+1, so
\* that seeding from it gives back the population and the counter held after the rollover.
CheckpointHoldsNewPopulation ==
    [][rollovers' = rollovers + 1
       => \A req \in saveRequests' \ saveRequests :
             "population" \in DOMAIN req => req = CheckpointOf(networks', generation')]_vars


\* the n most recent obstacles all have this type
RunOfType(history, type, n) ==
    Len(history) >= n /\ \A i \in 1 .. n : history[i] = type

\* C33: a candidate fast enough for the current speed is rejected for duplication only
\* when the MAX_OBSTACLE_DUPLICATION most recent obstacles all have its type; a
\* candidate equal to the single most recent type only is accepted, so the same type
\* can be spawned twice in a row.
RejectedOnlyAfterFullRun ==
    \A t \in 1 .. Len(OBSTACLE_TYPES) :
        (/\ currentSpeed >= OBSTACLE_TYPES[t].minSpeed
         /\ ~RunOfType(obstacleHistory, OBSTACLE_TYPES[t].type, MAX_OBSTACLE_DUPLICATION))
        => OBSTACLE_TYPES[t] \in Accepted(obstacleHistory, currentSpeed)


\* C32: at every rollover of a population of N the slots right after the elite hold
\* exactly floor(0.1 * N) clones, of pairwise distinct agents of the previous
\* generation none of which is the best one; the offspring start only after them.
SurvivorSlotsFilled ==
    diversity.cloned # << >> =>
        /\ Len(diversity.cloned) = 1 + diversity.populationSize \div 10
        /\ diversity.cloned[1] = diversity.bestIdx
        /\ \A k \in 2 .. Len(diversity.cloned) : diversity.cloned[k] # diversity.bestIdx
        /\ \A k, l \in 2 .. Len(diversity.cloned) :
              k # l => diversity.cloned[k] # diversity.cloned[l]


\* C34: only cacti are ever multiples: every PTERODACTYL created has size 1 and the
\* width of its type (46) at any speed, and a cactus has size > 1 only if the speed
\* at its creation was at least the multipleSpeed of its type.
OnlyCactiAreMultiples ==
    \A o \in DOMAIN track.obstacles :
        LET obstacle == track.obstacles[o]
            chosen == OBSTACLE_TYPES[obstacle.typeIdx]
        IN  IF obstacle.type = "PTERODACTYL"
            THEN obstacle.size = 1 /\ obstacle.width = chosen.width
            ELSE obstacle.size > 1 => obstacle.speed >= chosen.multipleSpeed


\* C35: for every alive agent of a run the status is JUMPING exactly when jumping and
\* DUCKING exactly when ducking, the status never goes from JUMPING to DUCKING or
\* back in one step, and WAITING is left only by a start.
StatusFollowsFlags ==
    /\ [](agentsPlaying =>
           \A i \in DOMAIN agents :
               agents[i].alive =>
                   /\ agents[i].status = "JUMPING" <=> agents[i].jumping
                   /\ agents[i].status = "DUCKING" <=> agents[i].ducking)
    /\ [][\A i \in DOMAIN agents :
             /\ ~(agents[i].status = "JUMPING" /\ agents'[i].status = "DUCKING")
             /\ ~(agents[i].status = "DUCKING" /\ agents'[i].status = "JUMPING")
             /\ (agents[i].status = "WAITING" /\ agents'[i].status # "WAITING")
                    => (agentsPlaying' /\ agents'[i].status = "RUNNING")]_vars

\* C36: in a tick of a run the ducking flag of an agent goes from true to false only
\* if the agent's xPos is beyond its threshold duckUntilX, or no obstacle is ahead, or
\* the nearest one is farther than 150; the threshold is set while the agent ducks
\* and null while it does not.
DuckHeldUntilReleased ==
    /\ [](shaping.tRex.ducking <=> shaping.tRex.duckUntilX = "set")
    /\ [][(shaping.tRex.ducking /\ ~shaping'.tRex.ducking /\ shaping'.tRex.status # "WAITING")
          => \/ shaping'.passed
             \/ shaping'.closest = NoObstacle
             \/ shaping'.minDist > 150]_vars

\* the agent has stood up, alive and running, in a tick without an obstacle ahead
\* and before its threshold
DuckReleased ==
    /\ shaping.stoodUp
    /\ shaping.tRex.status = "RUNNING"
    /\ shaping.actionIdx = 2
    /\ ~shaping.passed
    /\ shaping.closest = NoObstacle
    /\ shaping.tRex.duckUntilX = "null"

\* C37: at the end of every tick no agent is below the ground line, an agent that is
\* not jumping stands on it with jumpVelocity 0, and a tick in which an agent lands
\* leaves it RUNNING.
NeverBelowGround ==
    /\ [](/\ jumper.tRex.yPos <= jumper.tRex.groundYPos
          /\ ~jumper.tRex.jumping =>
                 jumper.tRex.yPos = jumper.tRex.groundYPos /\ jumper.tRex.jumpVelocity = 0)
    /\ [][jumper'.landed => jumper'.tRex.status = "RUNNING"]_vars

\* the agent has come down from above the minimum jump height and landed, alive
LandedFromJump ==
    /\ jumper.landed
    /\ jumper.from < groundYPos - MIN_JUMP_HEIGHT
    /\ jumper.tRex.alive
    /\ jumper.tRex.status = "RUNNING"
    /\ jumper.tRex.yPos = jumper.tRex.groundYPos

\* C38: an agent gets the pass bonus from an obstacle at most once while the obstacle
\* exists, only in a tick in which the agent is alive and the obstacle's right edge
\* xPos + width is left of the agent, and it gets it in the first such tick.
PassBonusOnce ==
    /\ [](\A k \in DOMAIN passing.obstacles : \A i \in 1 .. T_REX_COUNT :
             passing.obstacles[k].granted[i] <= 1)
    /\ [][\A k \in DOMAIN passing.obstacles : \A i \in 1 .. T_REX_COUNT :
             LET before == passing.obstacles[k]
                 after == passing'.scored[k]
             IN  /\ after.granted[i] > before.granted[i]
                       => /\ i \in passing.alive
                          /\ before.xPos + before.width < START_X_POS
                          /\ before.granted[i] = 0
                 /\ (i \in passing.alive /\ before.xPos + before.width < START_X_POS)
                       => after.granted[i] = 1]_vars

\* an obstacle still on the canvas has paid one agent and not the other, which was
\* dead when the obstacle passed
PaidOneAgentOnly ==
    \E k \in DOMAIN passing.obstacles : \E i, j \in 1 .. T_REX_COUNT :
        /\ passing.obstacles[k].granted[i] = 1
        /\ passing.obstacles[k].granted[j] = 0
        /\ j \notin passing.alive

\* C39: the list is empty while runningTime <= CLEAR_TIME; a tick appends at most one
\* obstacle; only the last obstacle of the list can have followingObstacleCreated
\* false; and a successor is appended only when the last obstacle has none yet and
\* its right edge plus its gap is left of the spawn edge.
OneSuccessorEach ==
    /\ [](lane.runningTime <= CLEAR_TIME => lane.obstacles = << >>)
    /\ [](\A k \in 1 .. (Len(lane.obstacles) - 1) :
             lane.obstacles[k].followingObstacleCreated)
    /\ [][/\ lane'.appended <= 1
          /\ Len(lane'.obstacles) <= Len(lane.obstacles) + 1
          /\ (lane'.appended = 1 /\ lane.obstacles # << >>)
                => LET last == lane.obstacles[Len(lane.obstacles)]
                   IN  /\ ~last.followingObstacleCreated
                       /\ last.xPos + last.width + last.gap < CanvasWidth]_vars

\* two obstacles are on the canvas, the first with its successor, the second without
SuccessorOnCanvas ==
    /\ Len(lane.obstacles) = 2
    /\ lane.appended = 1
    /\ lane.obstacles[1].followingObstacleCreated
    /\ ~lane.obstacles[2].followingObstacleCreated

\* C40: when the ten attempts of the selection are used up, createNewObstacle returns
\* no obstacle, and the tick appends nothing and leaves the history and the flag of
\* the last obstacle as they were, so that the selection is due again in the next tick.
FailedSelectionRetried ==
    [][lane'.failed =>
          /\ lane'.obstacles = moveObstacles(lane.obstacles, lane'.step)
          /\ obstacleHistory' = obstacleHistory
          /\ spawnDue(lane'.runningTime, lane'.obstacles)]_vars

\* the selection has failed behind an obstacle that is still on the canvas
FailedBehindObstacle ==
    /\ lane.failed
    /\ lane.obstacles # << >>
    /\ ~lane.obstacles[Len(lane.obstacles)].followingObstacleCreated

=============================================================================
